---- MODULE Spec2Model ----
(***************************************************************************)
(* A model of the sentence re-aligner: the document rematching engine      *)
(* (realigner.py, re_align_segs) and the unified multi-signal scorer       *)
(* (scorer.py, UnifiedScorer).                                              *)
(*                                                                         *)
(* Scores are compared but never added by the rematching engine, so they   *)
(* are modelled as integers; segment ids are compared for equality only,   *)
(* so a document's ids are its positions 1..n.  The two documents draw     *)
(* their ids from the same names, as LTF documents do (segment-0, ...).    *)
(***************************************************************************)
EXTENDS Integers, Sequences, FiniteSets, TLC

VARIABLES
    \* ---- re_align_segs (realigner.py) ----
    debug_mode,     \* the module flag realigner.debug_mode
    srcs,           \* src_doc.get_segs(): the source segment ids, in document order
    tgts,           \* eng_doc.get_segs(): the target segment ids, in document order
    threshold,      \* the threshold argument
    scores,         \* the dict scores, as its entries <<id1, id2, score>> in insertion order
    r_pc,           \* "idle" | "scoring" | "returned" | "raised"
    result,         \* the value re_align_segs returned
    \* ---- UnifiedScorer (scorer.py) ----
    flags,          \* the configured flag list, in order (self.scorers)
    final_scorer,   \* self.final_scorer
    call_src,       \* the arguments src and tgt of the running call of score
    call_tgt,
    tot_score,      \* the locals of score
    final_score,
    next_i,         \* the position of the loop over self.scorers
    s_pc,           \* "idle" | "cheap" | "final" | "returned" | "raised"
    invoked,        \* history: the scorers the running call has invoked, in order
    first,          \* history: the arguments and the outcome of the first call
    \* ---- one cheap scorer applied to one pair ----
    cheap_src,
    cheap_tgt,
    cheap_name,     \* "none" before the call, then the flag of the scorer applied
    cheap_out,      \* what it returned
    \* ---- get_scorer and the callers of the scorer it returns (scorer.py) ----
    g_flags,        \* flags.split(','): the names between the commas of --flags
    g_src_emb,      \* whether --src-emb is given (truthy)
    g_eng_emb,      \* whether --eng-emb is given (truthy)
    g_scorer,       \* what get_scorer returned
    g_scored,       \* whether a caller has got a score from the scorer
    g_pc,           \* "idle" | "start" | "constructed" | "raised" | "caller_raised"
    \* ---- load_vec (mcss.py) ----
    v_lines,        \* the lines of the embedding file after its header: the word of each
    v_nmax,         \* the argument nmax
    v_read,         \* how many of the lines the loop has taken
    v_vectors,      \* the list vectors: the line each vector came from
    v_word2id,      \* the dict word2id, as its entries <<word, id>> in insertion order
    v_word_vec,     \* the returned dict word_vec, as its entries <<word, line of its vector>>
    v_pc,           \* "idle" | "reading" | "loaded" | "returned" | "raised"
    \* ---- MCSS.score (mcss.py) ----
    m_src_vec,      \* self.src_vec and self.tgt_vec, as entries <<word, vector>> in insertion order
    m_tgt_vec,
    m_src_sent,     \* the arguments src_sent and tgt_sent
    m_tgt_sent,
    m_out,          \* the sentence vectors bow built and the value score returned
    m_pc,           \* "idle" | "called" | "returned" | "raised"
    \* ---- TranScorer.score (transcorer.py) ----
    t_fwd,          \* self.src_tgt and self.tgt_src: dicts of rows, as entries <<word, row>>;
    t_inv,          \*   a row is a dict, as entries <<word, probability in 1/ProbSteps>>
    t_combine,      \* "sum" | "max"
    t_lower,        \* the lowercase setting of the two preprocessors
    t_src,          \* the arguments src and tgt
    t_tgt,
    t_out,          \* the per-token evidence lists and the value score returned
    t_pc,           \* "idle" | "called" | "returned" | "raised"
    \* ---- scorer_eval (utils.py) ----
    e_pos,          \* pos_exs: the positive pairs <<src, tgt>> in input order
    e_scorer,       \* the scorer under evaluation: the score of every pair
    e_neg,          \* neg_sample_count
    e_seed,         \* seed: <<>> for None, <<k>> for the integer k
    e_rng,          \* the state of the generator of the module random
    e_runs,         \* how many times scorer_eval has run on these arguments
    e_out,          \* the outcome of the latest run
    e_first,        \* history: the outcome of the first run
    \* ---- re_align_all and ReAlignTask.run (realigner.py) ----
    b_pairs,        \* doc_mapping: the document-id pairs, in order
    b_threads,      \* threads: the number of pool workers
    b_exists,       \* the output paths that exist on disk
    b_task,         \* per pair: "queued" | "computing" | "skipped" | "written" | "no_alignment" | "failed"
    b_read,         \* history, per pair: whether its task read documents and called the scorer
    b_writes,       \* history: the writes of output files, <<task, path>>, in order
    b_pc,           \* "idle" | "running" | "returned" | "raised"
    \* ---- TTable construction (ttab.py) ----
    l_src_vocab,    \* the lines of the source vocabulary file
    l_tgt_vocab,    \* the lines of the target vocabulary file
    l_fwd_table,    \* the lines of the forward probability file
    l_out,          \* the TTable under construction: vocabularies, table, warnings, error
    l_pc,           \* "idle" | "src_vocab" | "tgt_vocab" | "fwd" | "done" | "raised"
    \* ---- Solr.post_iterator (solr.py) ----
    q_iter,         \* the items the iterator yields, in order
    q_args,         \* commit, soft_commit, buffer_size
    q_local,        \* the locals buffer, count, num_docs
    q_posts,        \* history: the requests post_items sent, with the status of the response
    q_ret           \* the call's position and, once it returned, its value

realignVars == <<debug_mode, srcs, tgts, threshold, scores, r_pc, result>>

scorerVars == <<flags, final_scorer, call_src, call_tgt, tot_score, final_score, next_i, s_pc,
                invoked, first>>

cheapVars == <<cheap_src, cheap_tgt, cheap_name, cheap_out>>

getVars == <<g_flags, g_src_emb, g_eng_emb, g_scorer, g_scored, g_pc>>

vecVars == <<v_lines, v_nmax, v_read, v_vectors, v_word2id, v_word_vec, v_pc>>

mcssVars == <<m_src_vec, m_tgt_vec, m_src_sent, m_tgt_sent, m_out, m_pc>>

tranVars == <<t_fwd, t_inv, t_combine, t_lower, t_src, t_tgt, t_out, t_pc>>

evalVars == <<e_pos, e_scorer, e_neg, e_seed, e_rng, e_runs, e_out, e_first>>

batchVars == <<b_pairs, b_threads, b_exists, b_task, b_read, b_writes, b_pc>>

loadVars == <<l_src_vocab, l_tgt_vocab, l_fwd_table, l_out, l_pc>>

solrVars == <<q_iter, q_args, q_local, q_posts, q_ret>>

vars == <<realignVars, scorerVars, cheapVars, getVars, vecVars, mcssVars, tranVars, evalVars, batchVars, loadVars, solrVars>>

(***************************************************************************)
(* Bounds of the rematching model.                                         *)
(***************************************************************************)
MaxSegs == 2

ScoreVals == {-1, 0, 1}

Thresholds == {-1, 0, 1, 2}

Ids(n) == [i \in 1..n |-> i]

(***************************************************************************)
(* The Alignment object and the None outcome.                              *)
(***************************************************************************)
None == [is_none |-> TRUE, src_id |-> "", tgt_id |-> "", alignments |-> <<>>]

Alignment(src_id, tgt_id, alignments) ==
    [is_none |-> FALSE, src_id |-> src_id, tgt_id |-> tgt_id, alignments |-> alignments]

SrcDocId == "SRC_DOC"

EngDocId == "ENG_DOC"

(***************************************************************************)
(* itertools.product(srcs, tgts): the k-th pair (k from 0), source-major.  *)
(***************************************************************************)
ProductAt(ss, ts, k) == <<ss[(k \div Len(ts)) + 1], ts[(k % Len(ts)) + 1]>>

ProductLen(ss, ts) == Len(ss) * Len(ts)

(***************************************************************************)
(* scores[(src_sid, tgt_sid)] = v on an insertion-ordered dict: an         *)
(* existing key keeps its place, a new key goes last.                      *)
(***************************************************************************)
DictPut(d, id1, id2, v) ==
    IF \E i \in 1..Len(d) : d[i][1] = id1 /\ d[i][2] = id2
    THEN [i \in 1..Len(d) |->
            IF d[i][1] = id1 /\ d[i][2] = id2 THEN <<id1, id2, v>> ELSE d[i]]
    ELSE Append(d, <<id1, id2, v>>)

(***************************************************************************)
(* items = [entry for entry in scores.items() if entry[1] >= threshold]    *)
(***************************************************************************)
SurvivesStrict(entry, th) == entry[3] > th

Survives(entry, th) == entry[3] >= th

RECURSIVE FilterItems(_, _)
FilterItems(d, th) ==
    IF d = <<>> THEN <<>>
    ELSE IF Survives(Head(d), th)
         THEN <<Head(d)>> \o FilterItems(Tail(d), th)
         ELSE FilterItems(Tail(d), th)

(***************************************************************************)
(* sorted(items, key=lambda x: x[1], reverse=True): a stable sort, so an   *)
(* entry stays behind every earlier entry whose key is not smaller.        *)
(***************************************************************************)
StaysBeforeAscending(a, b) == a[3] <= b[3]

StaysBeforeUnstable(a, b) == a[3] > b[3]

StaysBefore(a, b) == a[3] >= b[3]

RECURSIVE InsertSorted(_, _)
InsertSorted(sorted, e) ==
    IF sorted = <<>> THEN <<e>>
    ELSE IF StaysBefore(Head(sorted), e)
         THEN <<Head(sorted)>> \o InsertSorted(Tail(sorted), e)
         ELSE <<e>> \o sorted

RECURSIVE SortedDesc(_)
SortedDesc(its) ==
    IF its = <<>> THEN <<>>
    ELSE InsertSorted(SortedDesc(SubSeq(its, 1, Len(its) - 1)), its[Len(its)])

(***************************************************************************)
(* The greedy walk.  fwd_matching is an OrderedDict id1 -> (id2, score)    *)
(* and rev_matching a dict id2 -> (id1, score); both are kept as their     *)
(* entries in insertion order.                                             *)
(***************************************************************************)
Keys(m) == {m[i][1] : i \in 1..Len(m)}

\* m[key] = (other, score)
MapPut(m, e) ==
    IF e[1] \in Keys(m)
    THEN [i \in 1..Len(m) |-> IF m[i][1] = e[1] THEN e ELSE m[i]]
    ELSE Append(m, e)

CanAcceptEither(id1, id2, fwd_matching, rev_matching) ==
    id1 \notin Keys(fwd_matching) \/ id2 \notin Keys(rev_matching)

\* if id1 not in fwd_matching and id2 not in rev_matching
CanAccept(id1, id2, fwd_matching, rev_matching) ==
    id1 \notin Keys(fwd_matching) /\ id2 \notin Keys(rev_matching)

\* fwd_matching[id1] = id2, score
FwdEntry(id1, id2, score) == <<id1, id2, score>>

RevEntryKeyedBySource(id1, id2, score) == <<id1, id2, score>>

\* rev_matching[id2] = id1, score
RevEntry(id1, id2, score) == <<id2, id1, score>>

RECURSIVE Walk(_, _, _)
Walk(its, fwd_matching, rev_matching) ==
    IF its = <<>> THEN [fwd |-> fwd_matching, rev |-> rev_matching]
    ELSE LET id1 == Head(its)[1]
             id2 == Head(its)[2]
             score == Head(its)[3]
         IN  IF CanAccept(id1, id2, fwd_matching, rev_matching)
             THEN Walk(Tail(its),
                       MapPut(fwd_matching, FwdEntry(id1, id2, score)),
                       MapPut(rev_matching, RevEntry(id1, id2, score)))
             ELSE Walk(Tail(its), fwd_matching, rev_matching)

(***************************************************************************)
(* re_align_segs from line 72 on: "ValueError" and "AssertionError" are    *)
(* the exceptions the body can raise, anything else is the returned value. *)
(***************************************************************************)
Raised(name) == [is_none |-> FALSE, src_id |-> name, tgt_id |-> name, alignments |-> <<>>]

ReAlignSegs(d, th, debug) ==
    LET items == SortedDesc(FilterItems(d, th))
        m == Walk(items, <<>>, <<>>)
    IN  IF debug /\ d = <<>>
        THEN Raised("ValueError")      \* src_sids, tgt_sids = zip(*scores.keys())
        ELSE IF Len(m.fwd) # Len(m.rev)
        THEN Raised("AssertionError")  \* assert len(fwd_matching) == len(rev_matching)
        ELSE IF m.fwd = <<>>
        THEN None
        ELSE Alignment(SrcDocId, EngDocId,
                       [i \in 1..Len(m.fwd) |->
                            <<<<m.fwd[i][1]>>, <<m.fwd[i][2]>>, m.fwd[i][3]>>])

IsRaised(r) == r \in {Raised("ValueError"), Raised("AssertionError")}

(***************************************************************************)
(* The parts of the state a specification does not exercise stay idle.     *)
(***************************************************************************)
NoCall == [set |-> FALSE, between |-> FALSE, src |-> <<>>, tgt |-> <<>>,
           outcome |-> "none", value |-> 0]

NoFinalScorer == [kind |-> "none", value |-> 0]

RealignIdle ==
    /\ debug_mode = FALSE
    /\ srcs = <<>>
    /\ tgts = <<>>
    /\ threshold = 0
    /\ scores = <<>>
    /\ r_pc = "idle"
    /\ result = None

ScorerIdle ==
    /\ flags = <<>>
    /\ final_scorer = NoFinalScorer
    /\ call_src = <<>>
    /\ call_tgt = <<>>
    /\ tot_score = 0
    /\ final_score = 0
    /\ next_i = 1
    /\ s_pc = "idle"
    /\ invoked = <<>>
    /\ first = NoCall

CheapIdle ==
    /\ cheap_src = <<>>
    /\ cheap_tgt = <<>>
    /\ cheap_name = "none"
    /\ cheap_out = 0

NoScorer == [kind |-> "unset", flags |-> <<>>, final |-> "None", error |-> ""]

GetIdle ==
    /\ g_flags = <<>>
    /\ g_src_emb = FALSE
    /\ g_eng_emb = FALSE
    /\ g_scorer = NoScorer
    /\ g_scored = FALSE
    /\ g_pc = "idle"

VecIdle ==
    /\ v_lines = <<>>
    /\ v_nmax = 0
    /\ v_read = 0
    /\ v_vectors = <<>>
    /\ v_word2id = <<>>
    /\ v_word_vec = <<>>
    /\ v_pc = "idle"

NoVector == [sum |-> <<0, 0>>, n |-> 0]

NoSimilarity == [sign |-> 0, num |-> 0, den |-> 0]

NoMcssOut == [src |-> NoVector, tgt |-> NoVector, value |-> NoSimilarity, error |-> ""]

McssIdle ==
    /\ m_src_vec = <<>>
    /\ m_tgt_vec = <<>>
    /\ m_src_sent = <<>>
    /\ m_tgt_sent = <<>>
    /\ m_out = NoMcssOut
    /\ m_pc = "idle"

NoTranOut == [src_tok_usage |-> <<>>, tgt_tok_usage |-> <<>>, num |-> 0, den |-> 0, error |-> ""]

TranIdle ==
    /\ t_fwd = <<>>
    /\ t_inv = <<>>
    /\ t_combine = "sum"
    /\ t_lower = FALSE
    /\ t_src = <<>>
    /\ t_tgt = <<>>
    /\ t_out = NoTranOut
    /\ t_pc = "idle"

NoEvalOut == [error |-> "", drawn |-> <<>>, false_neg |-> <<>>, pos_tgt_score |-> <<>>, err_count |-> 0,
              returned |-> FALSE, num |-> 0, den |-> 0, rng_before |-> 0]

EvalIdle ==
    /\ e_pos = <<>>
    /\ e_scorer = <<>>
    /\ e_neg = 0
    /\ e_seed = <<>>
    /\ e_rng = 0
    /\ e_runs = 0
    /\ e_out = NoEvalOut
    /\ e_first = NoEvalOut

BatchIdle ==
    /\ b_pairs = <<>>
    /\ b_threads = 0
    /\ b_exists = {}
    /\ b_task = <<>>
    /\ b_read = <<>>
    /\ b_writes = <<>>
    /\ b_pc = "idle"

NoTTable == [src_id2tok |-> <<>>, src_freq |-> <<>>, tgt_id2tok |-> <<>>, tgt_freq |-> <<>>,
             fwd |-> <<>>, warnings |-> <<>>, error |-> ""]

LoadIdle ==
    /\ l_src_vocab = <<>>
    /\ l_tgt_vocab = <<>>
    /\ l_fwd_table = <<>>
    /\ l_out = NoTTable
    /\ l_pc = "idle"

NoReturn == [pc |-> "idle", num_docs |-> 0, res |-> FALSE]

SolrIdle ==
    /\ q_iter = <<>>
    /\ q_args = [commit |-> FALSE, soft_commit |-> FALSE, buffer_size |-> 0]
    /\ q_local = [buffer |-> <<>>, count |-> 0, num_docs |-> 0]
    /\ q_posts = <<>>
    /\ q_ret = NoReturn

\* every part but the one a specification exercises
IdleExcept(part) ==
    /\ IF part = "realign" THEN TRUE ELSE RealignIdle
    /\ IF part = "scorer" THEN TRUE ELSE ScorerIdle
    /\ IF part = "cheap" THEN TRUE ELSE CheapIdle
    /\ IF part = "get" THEN TRUE ELSE GetIdle
    /\ IF part = "vec" THEN TRUE ELSE VecIdle
    /\ IF part = "mcss" THEN TRUE ELSE McssIdle
    /\ IF part = "tran" THEN TRUE ELSE TranIdle
    /\ IF part = "eval" THEN TRUE ELSE EvalIdle
    /\ IF part = "batch" THEN TRUE ELSE BatchIdle
    /\ IF part = "load" THEN TRUE ELSE LoadIdle
    /\ IF part = "solr" THEN TRUE ELSE SolrIdle

Frame(part) ==
    /\ IF part = "realign" THEN TRUE ELSE UNCHANGED realignVars
    /\ IF part = "scorer" THEN TRUE ELSE UNCHANGED scorerVars
    /\ IF part = "cheap" THEN TRUE ELSE UNCHANGED cheapVars
    /\ IF part = "get" THEN TRUE ELSE UNCHANGED getVars
    /\ IF part = "vec" THEN TRUE ELSE UNCHANGED vecVars
    /\ IF part = "mcss" THEN TRUE ELSE UNCHANGED mcssVars
    /\ IF part = "tran" THEN TRUE ELSE UNCHANGED tranVars
    /\ IF part = "eval" THEN TRUE ELSE UNCHANGED evalVars
    /\ IF part = "batch" THEN TRUE ELSE UNCHANGED batchVars
    /\ IF part = "load" THEN TRUE ELSE UNCHANGED loadVars
    /\ IF part = "solr" THEN TRUE ELSE UNCHANGED solrVars

(***************************************************************************)
(* State machine of one call of re_align_segs.                             *)
(***************************************************************************)
RealignInit ==
    /\ debug_mode \in BOOLEAN
    /\ \E ns \in 0..MaxSegs, nt \in 0..MaxSegs : srcs = Ids(ns) /\ tgts = Ids(nt)
    /\ threshold \in Thresholds
    /\ scores = <<>>
    /\ r_pc = "scoring"
    /\ result = None
    /\ IdleExcept("realign")

\* one iteration of the loop over itertools.product: the scorer is called
ScorePair ==
    /\ r_pc = "scoring"
    /\ Len(scores) < ProductLen(srcs, tgts)
    /\ \E v \in ScoreVals :
         LET p == ProductAt(srcs, tgts, Len(scores))
         IN  scores' = DictPut(scores, p[1], p[2], v)
    /\ UNCHANGED <<debug_mode, srcs, tgts, threshold, r_pc, result>>
    /\ Frame("realign")

\* the rest of the body: filter, sort, walk, return (or raise)
Match ==
    /\ r_pc = "scoring"
    /\ Len(scores) = ProductLen(srcs, tgts)
    /\ LET r == ReAlignSegs(scores, threshold, debug_mode)
       IN  /\ result' = r
           /\ r_pc' = IF IsRaised(r) THEN "raised" ELSE "returned"
    /\ UNCHANGED <<debug_mode, srcs, tgts, threshold, scores>>
    /\ Frame("realign")

RealignNext == ScorePair \/ Match

SpecRealign == RealignInit /\ [][RealignNext]_vars

(***************************************************************************)
(* Sentences.  A sentence is a Python str, modelled as the sequence of its *)
(* characters; a character is a one-character string, except the Sinhala   *)
(* letters, which are named by their code points.                          *)
(***************************************************************************)
Digits == {"0", "1", "2", "3", "4", "5", "6", "7", "8", "9"}

AsciiLetters == {"a", "b", "c", "d", "e", "f", "g", "h", "i", "j", "k", "l", "m",
                 "n", "o", "p", "q", "r", "s", "t", "u", "v", "w", "x", "y", "z"}

SinhalaLetters == {"U+0D8B", "U+0DC3"}

\* c.isdigit() as \d sees it, c.isspace() as str.split() sees it, c.isalpha(), ord(c) < 256
IsDigit(c) == c \in Digits

IsSpace(c) == c = " "

IsAlpha(c) == c \in AsciiLetters \cup SinhalaLetters

OrdBelow256(c) == c \notin SinhalaLetters

S_EMPTY == <<>>

S_CALL_911_NOW == <<"c", "a", "l", "l", " ", "9", "1", "1", " ", "n", "o", "w">>

S_PHONE_911_PLEASE == <<"p", "h", "o", "n", "e", " ", "9", "1", "1", " ", "p", "l", "e", "a", "s", "e">>

S_CALL_911 == <<"c", "a", "l", "l", " ", "9", "1", "1">>

S_CALL_112 == <<"c", "a", "l", "l", " ", "1", "1", "2">>

S_911_911 == <<"9", "1", "1", " ", "9", "1", "1">>

S_TEN_NUMERALS == <<"0", " ", "1", " ", "2", " ", "3", " ", "4", " ", "5", " ", "6", " ", "7", " ", "8", " ", "9">>

S_SEE_URL == <<"s", "e", "e", " ", "h", "t", "t", "p", ":", "/", "/", "a", ".", "b", "/", "1", " ", ".">>

S_URL_OK == <<"o", "k", " ", "h", "t", "t", "p", ":", "/", "/", "a", ".", "b", "/", "1">>

S_URLS_URL == <<"h", "t", "t", "p", "s", ":", "/", "/", "a", ".", "b", "/", "1">>

S_URL_IN_URL == <<"h", "t", "t", "p", ":", "/", "/", "h", "t", "t", "p", ":", "/", "/", "a">>

S_BARE_SCHEME == <<"h", "t", "t", "p", ":", "/", "/", " ", "a">>

S_SINHALA_8 == <<"U+0D8B", "U+0DC3", " ", "8">>

Repeat(s, n) == [i \in 1..(n * Len(s)) |-> s[((i - 1) % Len(s)) + 1]]

\* all the strings of at most n characters over the alphabet
RECURSIVE StringsUpTo(_, _)
StringsUpTo(alphabet, n) ==
    IF n = 0 THEN {<<>>}
    ELSE LET shorter == StringsUpTo(alphabet, n - 1)
         IN  shorter \cup {Append(s, c) : s \in shorter, c \in alphabet}

(***************************************************************************)
(* UnifiedScorer: the class constants.                                     *)
(***************************************************************************)
must_reject == -20

must_accept == 20

may_reject == -1

may_accept == 1

not_sure == 0

final_pos_score == 1

final_neg_score == -1

(***************************************************************************)
(* copy_patterns[0] = (\d+): pat.findall(s) scans from the left and takes  *)
(* each maximal run of digits.                                             *)
(***************************************************************************)
Least(S) == CHOOSE i \in S : \A j \in S : i <= j

\* the last index of the run of digits that starts at i
DigitRunEnd(s, i) ==
    Least({e \in i..Len(s) : e = Len(s) \/ ~IsDigit(s[e + 1])})

RECURSIVE FindallDigits(_, _)
FindallDigits(s, pos) ==
    LET starts == {i \in pos..Len(s) : IsDigit(s[i])}
    IN  IF starts = {} THEN {}
        ELSE LET b == Least(starts)
                 e == DigitRunEnd(s, b)
             IN  {SubSeq(s, b, e)} \cup FindallDigits(s, e + 1)

(***************************************************************************)
(* copy_patterns[1] = (https?://[^ ]+): "http", an optional "s", "://" and *)
(* then every character up to the next space, at least one.                *)
(***************************************************************************)
HasAt(s, i, lit) ==
    /\ i + Len(lit) - 1 <= Len(s)
    /\ \A k \in 1..Len(lit) : s[i + k - 1] = lit[k]

\* the index of the first character after the scheme matched at i, or 0
UrlBodyStart(s, i) ==
    IF HasAt(s, i, <<"h", "t", "t", "p", "s", ":", "/", "/">>) THEN i + 8
    ELSE IF HasAt(s, i, <<"h", "t", "t", "p", ":", "/", "/">>) THEN i + 7
    ELSE 0

\* the last index of the run of characters other than the space that starts at i
NonSpaceRunEnd(s, i) ==
    Least({e \in i..Len(s) : e = Len(s) \/ s[e + 1] = " "})

\* the index of the last character of the match that starts at i, or 0
UrlMatchEnd(s, i) ==
    LET b == UrlBodyStart(s, i)
    IN  IF b # 0 /\ b <= Len(s) /\ s[b] # " " THEN NonSpaceRunEnd(s, b) ELSE 0

RECURSIVE FindallUrls(_, _)
FindallUrls(s, pos) ==
    LET starts == {i \in pos..Len(s) : UrlMatchEnd(s, i) # 0}
    IN  IF starts = {} THEN {}
        ELSE LET b == Least(starts)
                 e == UrlMatchEnd(s, b)
             IN  {SubSeq(s, b, e)} \cup FindallUrls(s, e + 1)

copy_patterns == <<"digits", "url">>

\* set(pat.findall(s))
Findall(pat, s) == IF pat = "digits" THEN FindallDigits(s, 1) ELSE FindallUrls(s, 1)

(***************************************************************************)
(* UnifiedScorer.copy_score                                                *)
(***************************************************************************)
IsAlignedByLength(src_toks, tgt_toks) ==
    Cardinality(src_toks) = Cardinality(tgt_toks)

\* len(src_toks) == len(tgt_toks) == len(src_toks & tgt_toks)
IsAligned(src_toks, tgt_toks) ==
    /\ Cardinality(src_toks) = Cardinality(tgt_toks)
    /\ Cardinality(tgt_toks) = Cardinality(src_toks \cap tgt_toks)

PatternScore(pat, src, tgt) ==
    LET src_toks == Findall(pat, src)
        tgt_toks == Findall(pat, tgt)
    IN  IF ~IsAligned(src_toks, tgt_toks)
        THEN must_reject
        ELSE 2 * may_accept * Cardinality(src_toks)

RECURSIVE SumPatterns(_, _, _)
SumPatterns(pats, src, tgt) ==
    IF pats = <<>> THEN 0
    ELSE PatternScore(Head(pats), src, tgt) + SumPatterns(Tail(pats), src, tgt)

copy_score(src, tgt) == SumPatterns(copy_patterns, src, tgt)

(***************************************************************************)
(* The ratio tests.  0.33 <= a / b <= 3.0 on positive counts a and b: the  *)
(* float quotient is compared exactly as the rational a / b is, as long as *)
(* b stays far below 2^53 / 100.                                           *)
(***************************************************************************)
RatioInBandOpen(a, b) == 33 * b < 100 * a /\ a < 3 * b

RatioInBand(a, b) == 33 * b <= 100 * a /\ a <= 3 * b

\* UnifiedScorer.charlen_score
charlen_score(src, tgt) ==
    IF RatioInBand(1 + Len(src), 1 + Len(tgt)) THEN not_sure ELSE must_reject

\* s.split(): the runs of characters between whitespace, in order
Split(s) ==
    LET starts == {i \in 1..Len(s) : ~IsSpace(s[i]) /\ (i = 1 \/ IsSpace(s[i - 1]))}
        Start(k) == CHOOSE i \in starts : Cardinality({j \in starts : j <= i}) = k
        End(b) == Least({e \in b..Len(s) : e = Len(s) \/ IsSpace(s[e + 1])})
    IN  [k \in 1..Cardinality(starts) |-> SubSeq(s, Start(k), End(Start(k)))]

\* UnifiedScorer.toklen_score
toklen_score(src, tgt) ==
    IF RatioInBand(1 + Len(Split(src)), 1 + Len(Split(tgt))) THEN not_sure ELSE must_reject

\* sum(1 for c in s if ord(c) < 256 and not c.isalpha())
AsciiNonAlpha(s) == Cardinality({i \in 1..Len(s) : OrdBelow256(s[i]) /\ ~IsAlpha(s[i])})

\* UnifiedScorer.ascii_ratio_score
ascii_ratio_score(src, tgt) ==
    IF RatioInBand(1 + AsciiNonAlpha(src), 1 + AsciiNonAlpha(tgt))
    THEN may_accept ELSE must_reject

\* the dict mapping of UnifiedScorer.__init__
FlagNames == {"copypatn", "toklen", "charlen", "ascii"}

CheapScorer(flag, src, tgt) ==
    CASE flag = "copypatn" -> copy_score(src, tgt)
      [] flag = "toklen" -> toklen_score(src, tgt)
      [] flag = "charlen" -> charlen_score(src, tgt)
      [] flag = "ascii" -> ascii_ratio_score(src, tgt)

(***************************************************************************)
(* The cheap scorers as functions of one sentence pair: the pair is drawn  *)
(* from every short string over a letter, a digit and the space, and from  *)
(* the sentences above; one action per scorer applies it.                  *)
(***************************************************************************)
MaxLen == 3

CheapSentences ==
    StringsUpTo({"a", "1", " "}, MaxLen)
    \cup {S_EMPTY, S_CALL_911_NOW, S_PHONE_911_PLEASE, S_CALL_911, S_CALL_112, S_911_911,
          S_TEN_NUMERALS, S_SEE_URL, S_URL_OK, S_URLS_URL, S_URL_IN_URL, S_BARE_SCHEME,
          S_SINHALA_8}

\* sentences of 32, 99 and 100 characters, and of 32, 99 and 100 tokens
S_32_CHARS == Repeat(<<"a">>, 32)

S_99_CHARS == Repeat(<<"a">>, 99)

S_100_CHARS == Repeat(<<"a">>, 100)

S_32_TOKENS == Repeat(<<"a", " ">>, 32)

S_99_TOKENS == Repeat(<<" ", "a">>, 99)

S_100_TOKENS == Repeat(<<" ", "a">>, 100)

\* the pairs whose length ratio is 0.33 or next to it, and their mirror images
LongPairs ==
    LET one_way == {<<S_32_CHARS, S_99_CHARS>>, <<S_32_CHARS, S_100_CHARS>>,
                    <<S_32_TOKENS, S_99_TOKENS>>, <<S_32_TOKENS, S_100_TOKENS>>}
    IN  one_way \cup {<<p[2], p[1]>> : p \in one_way}

CheapPairs == (CheapSentences \X CheapSentences) \cup LongPairs

CheapInit ==
    /\ \E p \in CheapPairs : cheap_src = p[1] /\ cheap_tgt = p[2]
    /\ cheap_name = "none"
    /\ cheap_out = 0
    /\ IdleExcept("cheap")

ApplyCopyScore ==
    /\ cheap_name = "none"
    /\ cheap_name' = "copypatn"
    /\ cheap_out' = copy_score(cheap_src, cheap_tgt)
    /\ UNCHANGED <<cheap_src, cheap_tgt>>
    /\ Frame("cheap")

ApplyCharlenScore ==
    /\ cheap_name = "none"
    /\ cheap_name' = "charlen"
    /\ cheap_out' = charlen_score(cheap_src, cheap_tgt)
    /\ UNCHANGED <<cheap_src, cheap_tgt>>
    /\ Frame("cheap")

ApplyToklenScore ==
    /\ cheap_name = "none"
    /\ cheap_name' = "toklen"
    /\ cheap_out' = toklen_score(cheap_src, cheap_tgt)
    /\ UNCHANGED <<cheap_src, cheap_tgt>>
    /\ Frame("cheap")

ApplyAsciiRatioScore ==
    /\ cheap_name = "none"
    /\ cheap_name' = "ascii"
    /\ cheap_out' = ascii_ratio_score(cheap_src, cheap_tgt)
    /\ UNCHANGED <<cheap_src, cheap_tgt>>
    /\ Frame("cheap")

CheapNext ==
    ApplyCopyScore \/ ApplyCharlenScore \/ ApplyToklenScore \/ ApplyAsciiRatioScore

SpecCheap == CheapInit /\ [][CheapNext]_vars

(***************************************************************************)
(* UnifiedScorer.score, one scorer object serving call after call.         *)
(*                                                                         *)
(* flags lists each enabled signal once, in the configured order.  The     *)
(* final scorer is any callable: it is modelled by what it does when it is *)
(* called, which is to return a number (inside or outside [-1, 1]) or to   *)
(* raise; the same callable does the same on every call.                   *)
(***************************************************************************)
MaxFlags == 2

FlagLists ==
    {f \in UNION {[1..n -> FlagNames] : n \in 0..MaxFlags} :
        \A i, j \in 1..Len(f) : i # j => f[i] # f[j]}

FinalOutputs == {-2, 0, 2}

FinalScorers ==
    {NoFinalScorer, [kind |-> "raises", value |-> 0]}
    \cup {[kind |-> "returns", value |-> v] : v \in FinalOutputs}

S_A_1 == <<"a", " ", "1">>

S_B_1_DOT == <<"b", " ", "1", " ", ".">>

ScorerSentences == {S_EMPTY, S_A_1, S_B_1_DOT, S_TEN_NUMERALS}

ScorerInit ==
    /\ flags \in FlagLists
    /\ final_scorer \in FinalScorers
    /\ call_src = <<>>
    /\ call_tgt = <<>>
    /\ tot_score = 0
    /\ final_score = 0
    /\ next_i = 1
    /\ s_pc = "idle"
    /\ invoked = <<>>
    /\ first = NoCall
    /\ IdleExcept("scorer")

InitialTotalCarriedOver(previous) == previous

\* tot_score = 0.0
InitialTotal(previous) == 0

\* score is entered with a sentence pair
ScoreCall ==
    /\ s_pc \in {"idle", "returned", "raised"}
    /\ \E s \in ScorerSentences, t \in ScorerSentences :
         /\ call_src' = s
         /\ call_tgt' = t
    /\ tot_score' = InitialTotal(tot_score)
    /\ final_score' = 0
    /\ next_i' = 1
    /\ invoked' = <<>>
    /\ s_pc' = "cheap"
    /\ UNCHANGED <<flags, final_scorer, first>>
    /\ Frame("scorer")

ShouldBreakOnRejectOnly(tot) == tot <= must_reject

\* if tot_score >= self.must_accept or tot_score <= self.must_reject: break
ShouldBreak(tot) == tot >= must_accept \/ tot <= must_reject

\* one iteration of the loop over self.scorers
CheapStep ==
    /\ s_pc = "cheap"
    /\ next_i <= Len(flags)
    /\ LET tot == tot_score + CheapScorer(flags[next_i], call_src, call_tgt)
       IN  /\ tot_score' = tot
           /\ s_pc' = IF ShouldBreak(tot) THEN "final" ELSE "cheap"
    /\ invoked' = Append(invoked, flags[next_i])
    /\ next_i' = next_i + 1
    /\ UNCHANGED <<flags, final_scorer, call_src, call_tgt, final_score, first>>
    /\ Frame("scorer")

InRangeUnchecked(v) == TRUE

\* assert self.final_neg_score <= final_score <= self.final_pos_score
InRange(v) == final_neg_score <= v /\ v <= final_pos_score

\* the lines after the loop: how the call ends, with what value, and whether
\* the final scorer was called
FinalOutcome(tot, fs) ==
    IF tot >= must_accept
    THEN [pc |-> "returned", value |-> final_pos_score, called |-> FALSE]
    ELSE IF tot <= must_reject
    THEN [pc |-> "returned", value |-> final_neg_score, called |-> FALSE]
    ELSE IF fs.kind = "none"
    THEN [pc |-> IF InRange(not_sure) THEN "returned" ELSE "raised",
          value |-> not_sure, called |-> FALSE]
    ELSE IF fs.kind = "raises"
    THEN [pc |-> "raised", value |-> 0, called |-> TRUE]
    ELSE [pc |-> IF InRange(fs.value) THEN "returned" ELSE "raised",
          value |-> fs.value, called |-> TRUE]

\* the loop is left, by break or by exhaustion, and the call returns or raises
Finish ==
    /\ s_pc = "final" \/ (s_pc = "cheap" /\ next_i > Len(flags))
    /\ LET o == FinalOutcome(tot_score, final_scorer)
       IN  /\ s_pc' = o.pc
           /\ final_score' = o.value
           /\ invoked' = IF o.called THEN Append(invoked, "final") ELSE invoked
           /\ first' = IF ~first.set
                       THEN [set |-> TRUE, between |-> FALSE, src |-> call_src,
                             tgt |-> call_tgt, outcome |-> o.pc, value |-> o.value]
                       ELSE IF first.src # call_src \/ first.tgt # call_tgt
                       THEN [first EXCEPT !.between = TRUE]
                       ELSE first
    /\ UNCHANGED <<flags, final_scorer, call_src, call_tgt, tot_score, next_i>>
    /\ Frame("scorer")

ScorerNext == ScoreCall \/ CheapStep \/ Finish

SpecScorer == ScorerInit /\ [][ScorerNext]_vars

(***************************************************************************)
(* get_scorer (scorer.py): the scorer is built from the --flags string and *)
(* the embedding paths, and handed to re_align_segs or predict, which call *)
(* scorer.score(src, tgt) on it.  The --flags string is modelled by the    *)
(* list of names between its commas; "".split(',') is [""], so the list is *)
(* never empty.  An embedding path that is given names a loadable file.    *)
(***************************************************************************)
ArgNames == FlagNames \cup {"mcss", "bogus", ""}

ArgLists == UNION {[1..n -> ArgNames] : n \in 1..MaxFlags}

\* list.remove: the list without the first occurrence of x
Remove(s, x) ==
    LET i == Least({k \in 1..Len(s) : s[k] = x})
    IN  SubSeq(s, 1, i - 1) \o SubSeq(s, i + 1, Len(s))

ConstructionRaised(name) == [NoScorer EXCEPT !.kind = "raised", !.error = name]

\* the bound method MCSS(...).score
BoundScoreMethod == [NoScorer EXCEPT !.kind = "method"]

NoneScorer == [NoScorer EXCEPT !.kind = "None"]

LookupFailsNever(fl) == FALSE

\* [mapping[flag] for flag in flags]: a KeyError on a name that is no key
LookupFails(fl) == \E i \in 1..Len(fl) : fl[i] \notin FlagNames

UnifiedScorerInit(final, fl) ==
    IF LookupFails(fl)
    THEN ConstructionRaised("KeyError")
    ELSE [NoScorer EXCEPT !.kind = "UnifiedScorer", !.flags = fl, !.final = final]

GetScorer(fl, src_emb, eng_emb) ==
    IF \E i \in 1..Len(fl) : fl[i] = "mcss"
    THEN LET rest == Remove(fl, "mcss")
         IN  IF ~(src_emb /\ eng_emb)
             THEN ConstructionRaised("AssertionError")
             ELSE IF rest # <<>>
                  THEN UnifiedScorerInit("mcss", rest)
                  ELSE BoundScoreMethod
    ELSE IF fl # <<>> THEN UnifiedScorerInit("None", fl) ELSE NoneScorer

\* the attribute lookup scorer.score of the callers
HasScoreAttribute(s) == s.kind = "UnifiedScorer"

GetInit ==
    /\ g_flags \in ArgLists
    /\ g_src_emb \in BOOLEAN
    /\ g_eng_emb \in BOOLEAN
    /\ g_scorer = NoScorer
    /\ g_scored = FALSE
    /\ g_pc = "start"
    /\ IdleExcept("get")

\* scorer = get_scorer(**args)
GetScorerCall ==
    /\ g_pc = "start"
    /\ LET s == GetScorer(g_flags, g_src_emb, g_eng_emb)
       IN  /\ g_scorer' = s
           /\ g_pc' = IF s.kind = "raised" THEN "raised" ELSE "constructed"
    /\ UNCHANGED <<g_flags, g_src_emb, g_eng_emb, g_scored>>
    /\ Frame("get")

\* scorer.score(src_txt, tgt_txt) in re_align_segs and in predict
CallScore ==
    /\ g_pc = "constructed"
    /\ IF HasScoreAttribute(g_scorer)
       THEN g_scored' = TRUE /\ g_pc' = g_pc /\ g_scorer' = g_scorer
       ELSE /\ g_pc' = "caller_raised"
            /\ g_scorer' = [g_scorer EXCEPT !.error = "AttributeError"]
            /\ g_scored' = g_scored
    /\ UNCHANGED <<g_flags, g_src_emb, g_eng_emb>>
    /\ Frame("get")

GetNext == GetScorerCall \/ CallScore

SpecGet == GetInit /\ [][GetNext]_vars

(***************************************************************************)
(* load_vec (mcss.py).  The embedding file is modelled by the lines after  *)
(* its header; a line is the word it starts with, or BareLine when it has  *)
(* no space after the word (nothing to unpack into word, vect).  The       *)
(* vector of a line is identified by the number of the line.               *)
(***************************************************************************)
MaxVecLines == 3

VecWords == {"a", "b"}

BareLine == "<bare>"

VecFiles == UNION {[1..n -> VecWords \cup {BareLine}] : n \in 0..MaxVecLines}

SeenBeforeUnchecked(word, word2id) == FALSE

\* assert word not in word2id, 'word found twice'
SeenBefore(word, word2id) == word \in Keys(word2id)

\* the value the dict d holds for key k
Lookup(d, k) == d[CHOOSE i \in 1..Len(d) : d[i][1] = k][2]

\* word_vec[i] = embeddings[word2id[i]] for i in word2id; ids count from 0
WordVec(vectors, word2id) ==
    [i \in 1..Len(word2id) |-> <<word2id[i][1], vectors[word2id[i][2] + 1]>>]

VecInit ==
    /\ v_lines \in VecFiles
    /\ v_nmax \in 0..(MaxVecLines + 1)
    /\ v_read = 0
    /\ v_vectors = <<>>
    /\ v_word2id = <<>>
    /\ v_word_vec = <<>>
    /\ v_pc = "reading"
    /\ IdleExcept("vec")

\* one iteration of the loop over the lines
ReadLine ==
    /\ v_pc = "reading"
    /\ v_read < Len(v_lines)
    /\ LET word == v_lines[v_read + 1]
       IN  IF word = BareLine \/ SeenBefore(word, v_word2id)
           THEN /\ v_pc' = "raised"
                /\ UNCHANGED <<v_vectors, v_word2id>>
           ELSE LET w2i == MapPut(v_word2id, <<word, Len(v_word2id)>>)
                IN  /\ v_vectors' = Append(v_vectors, v_read + 1)
                    /\ v_word2id' = w2i
                    /\ v_pc' = IF Len(w2i) = v_nmax THEN "loaded" ELSE "reading"
    /\ v_read' = v_read + 1
    /\ UNCHANGED <<v_lines, v_nmax, v_word_vec>>
    /\ Frame("vec")

\* the loop ran out of lines
EndOfFile ==
    /\ v_pc = "reading"
    /\ v_read = Len(v_lines)
    /\ v_pc' = "loaded"
    /\ UNCHANGED <<v_lines, v_nmax, v_read, v_vectors, v_word2id, v_word_vec>>
    /\ Frame("vec")

\* after the loop: np.vstack raises on an empty list, else word_vec is built
BuildTable ==
    /\ v_pc = "loaded"
    /\ IF v_vectors = <<>>
       THEN v_pc' = "raised" /\ v_word_vec' = v_word_vec
       ELSE v_pc' = "returned" /\ v_word_vec' = WordVec(v_vectors, v_word2id)
    /\ UNCHANGED <<v_lines, v_nmax, v_read, v_vectors, v_word2id>>
    /\ Frame("vec")

VecNext == ReadLine \/ EndOfFile \/ BuildTable

SpecLoadVec == VecInit /\ [][VecNext]_vars

(***************************************************************************)
(* MCSS.score and bow (mcss.py).  Word vectors have two integer            *)
(* coordinates.  A sentence vector, the mean of n word vectors, is kept as *)
(* their sum and n; the cosine of two vectors is kept exactly, as the sign *)
(* of their dot product and the square of the cosine as a fraction.        *)
(***************************************************************************)
MaxSentLen == 2

McssChars == {"a", "B", "c", " "}

McssSentences == StringsUpTo(McssChars, MaxSentLen)

W_A == <<"a">>

W_B == <<"b">>

\* tables as load_vec returns them: not empty, one entry per word
McssTables ==
    { << <<W_A, <<1, 0>>>>, <<W_B, <<0, 1>>>> >>,
      << <<W_B, <<1, 1>>>>, <<W_A, <<-1, 0>>>> >>,
      << <<W_A, <<0, 0>>>> >> }

\* str.lower, on the letters of the model
LowerChar(c) == IF c = "B" THEN "b" ELSE c

Lower(s) == [i \in 1..Len(s) |-> LowerChar(s[i])]

RECURSIVE VecSum(_)
VecSum(vs) ==
    IF vs = <<>> THEN <<0, 0>>
    ELSE LET rest == VecSum(Tail(vs))
         IN  <<vs[1][1] + rest[1], vs[1][2] + rest[2]>>

\* [x for x in s if keep(x)], by the positions kept
SelectInVocab(sent, word_vec) ==
    LET kept == {i \in 1..Len(sent) : sent[i] \in Keys(word_vec)}
        Nth(k) == CHOOSE i \in kept : Cardinality({j \in kept : j <= i}) = k
    IN  [k \in 1..Cardinality(kept) |-> Lookup(word_vec, sent[Nth(k)])]

\* count['oov'] / count['tol'] divides by the number of tokens
TotalIsZero(sent) == Len(sent) = 0

\* bow([sent], word_vec): the sentence vector, or the exception raised
Bow(sent, word_vec) ==
    LET sentvec == SelectInVocab(sent, word_vec)
        used == IF Len(sentvec) = 0 THEN <<word_vec[1][2]>> ELSE sentvec
    IN  IF TotalIsZero(sent)
        THEN [raised |-> "ZeroDivisionError", vec |-> NoVector]
        ELSE [raised |-> "", vec |-> [sum |-> VecSum(used), n |-> Len(used)]]

Dot(u, v) == u[1] * v[1] + u[2] * v[2]

Sign(x) == IF x > 0 THEN 1 ELSE IF x < 0 THEN -1 ELSE 0

\* cosine_similarity of two means: the means' positive factors 1/n cancel;
\* a vector of norm zero is left as it is by the normalisation
CosineSimilarity(a, b) ==
    LET d == Dot(a.sum, b.sum)
        na == Dot(a.sum, a.sum)
        nb == Dot(b.sum, b.sum)
    IN  IF na = 0 \/ nb = 0
        THEN [sign |-> 0, num |-> 0, den |-> 1]
        ELSE [sign |-> Sign(d), num |-> d * d, den |-> na * nb]

\* MCSS.score
McssScore(src_sent, tgt_sent, src_vec, tgt_vec) ==
    LET s == Bow(Split(Lower(src_sent)), src_vec)
    IN  IF s.raised # ""
        THEN [NoMcssOut EXCEPT !.error = s.raised]
        ELSE LET t == Bow(Split(Lower(tgt_sent)), tgt_vec)
             IN  IF t.raised # ""
                 THEN [NoMcssOut EXCEPT !.src = s.vec, !.error = t.raised]
                 ELSE [src |-> s.vec, tgt |-> t.vec,
                       value |-> CosineSimilarity(s.vec, t.vec), error |-> ""]

McssInit ==
    /\ m_src_vec \in McssTables
    /\ m_tgt_vec \in McssTables
    /\ m_src_sent \in McssSentences
    /\ m_tgt_sent \in McssSentences
    /\ m_out = NoMcssOut
    /\ m_pc = "called"
    /\ IdleExcept("mcss")

McssScoreCall ==
    /\ m_pc = "called"
    /\ LET r == McssScore(m_src_sent, m_tgt_sent, m_src_vec, m_tgt_vec)
       IN  /\ m_out' = r
           /\ m_pc' = IF r.error # "" THEN "raised" ELSE "returned"
    /\ UNCHANGED <<m_src_vec, m_tgt_vec, m_src_sent, m_tgt_sent>>
    /\ Frame("mcss")

McssNext == McssScoreCall

SpecMcss == McssInit /\ [][McssNext]_vars

(***************************************************************************)
(* TranScorer.score (transcorer.py) with the preprocessors of ttab.py.     *)
(* A probability is a multiple of 1/ProbSteps and is kept as its numerator;*)
(* an evidence is kept in the same unit, so 1.0 is ProbSteps.  The score,  *)
(* a mean of two means, is kept as the fraction num/den.                   *)
(***************************************************************************)
ProbSteps == 2

MaxTranToks == 3

TranTokens == {"a", "B"}

\* ' '.join(toks) for one-character tokens
JoinSpaces(toks) ==
    [i \in 1..(2 * Len(toks) - 1) |-> IF i % 2 = 1 THEN toks[(i + 1) \div 2] ELSE " "]

\* the sentences of at most n tokens, and a sentence of white space
TranSentences(n) ==
    {JoinSpaces(toks) : toks \in UNION {[1..k -> TranTokens] : k \in 0..n}}
    \cup {<<" ">>}

\* the rows read_ttab builds: one probability per word, for at least one word
TranRows ==
    {<< <<W_A, p>> >> : p \in 0..ProbSteps}
    \cup {<< <<W_B, p>> >> : p \in 0..ProbSteps}
    \cup {<< <<W_A, p>>, <<W_B, q>> >> : p \in 0..ProbSteps, q \in 0..ProbSteps}

TranTables == {<<>>} \cup {<< <<W_A, r>> >> : r \in TranRows}

\* Preprocessor.__call__ without a morfessor model
Preprocess(sentence, lowercase) ==
    Split(IF lowercase THEN Lower(sentence) ELSE sentence)

RECURSIVE SumSeq(_)
SumSeq(xs) == IF xs = <<>> THEN 0 ELSE xs[1] + SumSeq(Tail(xs))

MaxSeq(xs) == CHOOSE m \in {xs[i] : i \in 1..Len(xs)} : \A i \in 1..Len(xs) : xs[i] <= m

CombinerAlwaysSum(combine, xs) == SumSeq(xs)

\* self.combiner = {'sum': sum, 'max': max}[combine]
Combiner(combine, xs) == IF combine = "sum" THEN SumSeq(xs) ELSE MaxSeq(xs)

\* [probs[tok] for tok in probs.keys() & cand_toks]
CandScores(probs, cand_toks) ==
    LET hit == {i \in 1..Len(probs) : probs[i][1] \in cand_toks}
        Nth(k) == CHOOSE i \in hit : Cardinality({j \in hit : j <= i}) = k
    IN  [k \in 1..Cardinality(hit) |-> probs[Nth(k)][2]]

\* TranScorer._translation_evidence
TranslationEvidence(tok, ttab, cand_toks, combine) ==
    IF tok \notin Keys(ttab)
    THEN IF tok \in cand_toks THEN ProbSteps ELSE 0
    ELSE LET cand_scores == CandScores(Lookup(ttab, tok), cand_toks)
         IN  IF cand_scores # <<>> THEN Combiner(combine, cand_scores) ELSE 0

TokensScoredOnce(toks) ==
    LET firsts == {i \in 1..Len(toks) : \A j \in 1..(i - 1) : toks[j] # toks[i]}
        Nth(k) == CHOOSE i \in firsts : Cardinality({j \in firsts : j <= i}) = k
    IN  [k \in 1..Cardinality(firsts) |-> toks[Nth(k)]]

\* for src_tok in src_toks: the token list, repeats included
TokensScored(toks) == toks

TokUsage(toks, ttab, cand_toks, combine) ==
    LET scored == TokensScored(toks)
    IN  [i \in 1..Len(scored) |-> TranslationEvidence(scored[i], ttab, cand_toks, combine)]

\* TranScorer.score
TranScore(src, tgt, fwd, inv, combine, lowercase) ==
    LET src_toks == Preprocess(src, lowercase)
        tgt_toks == Preprocess(tgt, lowercase)
        src_tok_set == {src_toks[i] : i \in 1..Len(src_toks)}
        tgt_tok_set == {tgt_toks[i] : i \in 1..Len(tgt_toks)}
        src_tok_usage == TokUsage(src_toks, fwd, tgt_tok_set, combine)
        tgt_tok_usage == TokUsage(tgt_toks, inv, src_tok_set, combine)
        ls == Len(src_tok_usage)
        lt == Len(tgt_tok_usage)
    IN  IF ls = 0 \/ lt = 0
        THEN [NoTranOut EXCEPT !.src_tok_usage = src_tok_usage,
                               !.tgt_tok_usage = tgt_tok_usage,
                               !.error = "ZeroDivisionError"]
        ELSE [src_tok_usage |-> src_tok_usage,
              tgt_tok_usage |-> tgt_tok_usage,
              num |-> SumSeq(src_tok_usage) * lt + SumSeq(tgt_tok_usage) * ls,
              den |-> 2 * ProbSteps * ls * lt,
              error |-> ""]

TranInit ==
    /\ t_fwd \in TranTables
    /\ t_inv \in {<<>>, t_fwd}
    /\ t_combine \in {"sum", "max"}
    /\ t_lower \in BOOLEAN
    /\ t_src \in TranSentences(MaxTranToks)
    /\ t_tgt \in TranSentences(MaxTranToks - 1)
    /\ t_out = NoTranOut
    /\ t_pc = "called"
    /\ IdleExcept("tran")

TranScoreCall ==
    /\ t_pc = "called"
    /\ LET r == TranScore(t_src, t_tgt, t_fwd, t_inv, t_combine, t_lower)
       IN  /\ t_out' = r
           /\ t_pc' = IF r.error # "" THEN "raised" ELSE "returned"
    /\ UNCHANGED <<t_fwd, t_inv, t_combine, t_lower, t_src, t_tgt>>
    /\ Frame("tran")

TranNext == TranScoreCall

SpecTran == TranInit /\ [][TranNext]_vars

(***************************************************************************)
(* scorer_eval (utils.py), the evaluation harness.  Sentences are compared *)
(* for equality and handed to the scorer, nothing else, so they are named  *)
(* by numbers, in the order in which they first appear in the input.  The  *)
(* scorer is deterministic: a function of the pair.  The generator of the  *)
(* module random is a state machine of its own; scorer_eval runs twice on  *)
(* the same arguments, the second run starting from the generator state    *)
(* the first one left.  The error percentage 100.0 * err_count / len is    *)
(* kept as the fraction num/den.                                           *)
(***************************************************************************)
MaxPos == 3

EvalSrcs == 1..2

EvalTgts == 1..3

EvalScores == 0..1

\* names are given in the order of first appearance
FirstAppearanceOrder(pos, side) ==
    \A i \in 1..Len(pos) :
        pos[i][side] = 1 \/ \E j \in 1..(i - 1) : pos[i][side] <= pos[j][side] + 1

PosLists ==
    {pos \in UNION {[1..n -> EvalSrcs \X EvalTgts] : n \in 1..MaxPos} :
        FirstAppearanceOrder(pos, 1) /\ FirstAppearanceOrder(pos, 2)}

\* the scorer is asked about sentences of the input only
EvalScorers(pos) ==
    {f \in [EvalSrcs \X EvalTgts -> EvalScores] :
        \A p \in EvalSrcs \X EvalTgts :
            (\A i \in 1..Len(pos) : pos[i][1] # p[1]) \/ (\A i \in 1..Len(pos) : pos[i][2] # p[2])
                => f[p] = 0}

\* random.seed(k)
SeedState(k) == k % 4

\* one step of the generator, and the number below n it yields
RandNext(x) == (x + 3) % 4

RandBelow(x, n) == x % n

SeedGivenTruthy(seed) == seed # <<>> /\ seed[1] # 0

\* if seed is not None
SeedGiven(seed) == seed # <<>>

Swap(x, i, j) == [x EXCEPT ![i] = x[j], ![j] = x[i]]

\* random.shuffle: for i in reversed(range(1, len(x))): j = randbelow(i + 1); swap
RECURSIVE Shuffle(_, _, _)
Shuffle(x, i, rng) ==
    IF i < 1 THEN [list |-> x, rng |-> rng]
    ELSE LET r == RandNext(rng)
             j == RandBelow(r, i + 1)
         IN  Shuffle(Swap(x, i + 1, j + 1), i - 1, r)

\* neg_tgts = [t for t in tgt_seqs if t != pos_tgt]
NegTgts(pos, pos_tgt) ==
    LET kept == {i \in 1..Len(pos) : pos[i][2] # pos_tgt}
        Nth(k) == CHOOSE i \in kept : Cardinality({j \in kept : j <= i}) = k
    IN  [k \in 1..Cardinality(kept) |-> pos[Nth(k)][2]]

\* x[:n] for n >= 0
Prefix(x, n) == SubSeq(x, 1, IF n < Len(x) THEN n ELSE Len(x))

\* pos_scores[src], of the dict {src: scorer.score(src, tgt) for src, tgt in
\* pos_exs}: a later pair with the same src replaces the entry; i is unused
PosScore(pos, scorer, i) ==
    LET same == {k \in 1..Len(pos) : pos[k][1] = pos[i][1]}
        last == CHOOSE k \in same : \A m \in same : m <= k
    IN  scorer[pos[last]]

\* the loop of lines 27-36 from pair i on: the generator state, the samples
\* drawn per pair, error_tgts per src, neg_count
RECURSIVE SampleLoop(_, _, _, _, _)
SampleLoop(pos, scorer, neg, i, acc) ==
    IF i > Len(pos) THEN acc
    ELSE LET src == pos[i][1]
             neg_tgts == NegTgts(pos, pos[i][2])
             sh == Shuffle(neg_tgts, Len(neg_tgts) - 1, acc.rng)
             sample == Prefix(sh.list, neg)
             errors == {<<scorer[<<src, sample[k]>>], sample[k]>> : k \in
                          {k \in 1..Len(sample) :
                              scorer[<<src, sample[k]>>] > PosScore(pos, scorer, i)}}
         IN  SampleLoop(pos, scorer, neg, i + 1,
                 [rng |-> sh.rng,
                  drawn |-> Append(acc.drawn, sample),
                  error_tgts |-> [acc.error_tgts EXCEPT ![src] = @ \cup errors],
                  neg_count |-> acc.neg_count + Len(sample)])

\* scorer_eval from the generator state rng: the outcome and the state left
ScorerEval(pos, scorer, neg, seed, rng) ==
    LET rng0 == IF SeedGiven(seed) THEN SeedState(seed[1]) ELSE rng
        done == SampleLoop(pos, scorer, neg, 1,
                    [rng |-> rng0, drawn |-> <<>>,
                     error_tgts |-> [s \in EvalSrcs |-> {}], neg_count |-> 0])
        false_neg == [i \in 1..Len(pos) |-> done.error_tgts[pos[i][1]] # {}]
        err_count == Cardinality({i \in 1..Len(pos) : false_neg[i]})
    IN  IF ~(Len(pos) > neg)
        THEN [out |-> [NoEvalOut EXCEPT !.error = "AssertionError", !.rng_before = rng],
              rng |-> rng0]
        ELSE IF done.neg_count = 0
        THEN [out |-> [NoEvalOut EXCEPT !.error = "ZeroDivisionError",
                                        !.drawn = done.drawn, !.rng_before = rng],
              rng |-> done.rng]
        ELSE [out |-> [error |-> "", drawn |-> done.drawn, false_neg |-> false_neg,
                       pos_tgt_score |-> [i \in 1..Len(pos) |-> PosScore(pos, scorer, i)],
                       err_count |-> err_count, returned |-> TRUE,
                       num |-> 100 * err_count, den |-> Len(pos), rng_before |-> rng],
              rng |-> done.rng]

EvalInit ==
    /\ e_pos \in PosLists
    /\ e_scorer \in EvalScorers(e_pos)
    /\ e_neg \in 0..Len(e_pos)
    /\ e_seed \in {<<>>, <<0>>, <<1>>}
    /\ e_rng = 0
    /\ e_runs = 0
    /\ e_out = NoEvalOut
    /\ e_first = NoEvalOut
    /\ IdleExcept("eval")

ScorerEvalCall ==
    /\ e_runs < 2
    /\ LET r == ScorerEval(e_pos, e_scorer, e_neg, e_seed, e_rng)
       IN  /\ e_out' = r.out
           /\ e_rng' = r.rng
           /\ e_first' = IF e_runs = 0 THEN r.out ELSE e_first
    /\ e_runs' = e_runs + 1
    /\ UNCHANGED <<e_pos, e_scorer, e_neg, e_seed>>
    /\ Frame("eval")

EvalNext == ScorerEvalCall

SpecEval == EvalInit /\ [][EvalNext]_vars

(***************************************************************************)
(* re_align_all and ReAlignTask.run (realigner.py).  A document id is       *)
(* modelled as <<language prefix, number>>.  The pool hands the pairs to   *)
(* its workers in order, one pair per job (the chunk size of Pool.map is 1 *)
(* for lists of at most 4 * threads pairs); a job is the call run(ids).    *)
(* What the documents and the scorer make of a pair is the environment's   *)
(* choice: an alignment, None, or a tokenized file that is missing.        *)
(***************************************************************************)
MaxPairs == 2

SrcDocs == {<<"SWA", 1>>, <<"SWA", 2>>}

EngDocs == {<<"ENG", 1>>, <<"ENG", 2>>}

\* the mappings read from the alignment files, in either order of the ids
DocPairs == (SrcDocs \X EngDocs) \cup (EngDocs \X SrcDocs)

BatchThreads == 1..2

\* src_id.lower().startswith('eng')
StartsWithEng(doc_id) == doc_id[1] = "ENG"

\* src_id after the swap of lines 117-118
OutKey(ids) == IF StartsWithEng(ids[1]) THEN ids[2] ELSE ids[1]

\* ReAlignTask.aln_path
AlnPath(doc_id) == <<doc_id, ".aln.xml">>

PathExistsNever(path, existing) == FALSE

\* os.path.exists(out_path)
PathExists(path, existing) == path \in existing

RunOutcomes == {"alignment", "none", "missing_file"}

BatchInit ==
    /\ b_pairs \in UNION {[1..n -> DocPairs] : n \in 0..MaxPairs}
    /\ b_threads \in BatchThreads
    /\ b_exists \in SUBSET {AlnPath(d) : d \in SrcDocs}
    /\ b_task = [i \in 1..Len(b_pairs) |-> "queued"]
    /\ b_read = [i \in 1..Len(b_pairs) |-> FALSE]
    /\ b_writes = <<>>
    /\ b_pc = "running"
    /\ IdleExcept("batch")

\* a free worker takes the next pair: run up to the test of line 120
RunBegin(i) ==
    /\ b_pc = "running"
    /\ b_task[i] = "queued"
    /\ \A j \in 1..(i - 1) : b_task[j] # "queued"
    /\ Cardinality({j \in 1..Len(b_task) : b_task[j] = "computing"}) < b_threads
    /\ b_task' = [b_task EXCEPT ![i] =
                    IF PathExists(AlnPath(OutKey(b_pairs[i])), b_exists)
                    THEN "skipped" ELSE "computing"]
    /\ UNCHANGED <<b_pairs, b_threads, b_exists, b_read, b_writes, b_pc>>
    /\ Frame("batch")

\* the rest of run: read the documents, re_align_segs, write_alignment
RunFinish(i) ==
    /\ b_pc = "running"
    /\ b_task[i] = "computing"
    /\ b_read' = [b_read EXCEPT ![i] = TRUE]
    /\ \E outcome \in RunOutcomes :
         CASE outcome = "alignment" ->
                /\ b_exists' = b_exists \cup {AlnPath(OutKey(b_pairs[i]))}
                /\ b_writes' = Append(b_writes, <<i, AlnPath(OutKey(b_pairs[i]))>>)
                /\ b_task' = [b_task EXCEPT ![i] = "written"]
           [] outcome = "none" ->
                /\ b_task' = [b_task EXCEPT ![i] = "no_alignment"]
                /\ UNCHANGED <<b_exists, b_writes>>
           [] outcome = "missing_file" ->
                /\ b_task' = [b_task EXCEPT ![i] = "failed"]
                /\ UNCHANGED <<b_exists, b_writes>>
    /\ UNCHANGED <<b_pairs, b_threads, b_pc>>
    /\ Frame("batch")

\* task_pool.map returns once every job is done, or raises a job's exception
MapReturns ==
    /\ b_pc = "running"
    /\ \A i \in 1..Len(b_task) : b_task[i] \notin {"queued", "computing"}
    /\ b_pc' = IF \E i \in 1..Len(b_task) : b_task[i] = "failed"
               THEN "raised" ELSE "returned"
    /\ UNCHANGED <<b_pairs, b_threads, b_exists, b_task, b_read, b_writes>>
    /\ Frame("batch")

BatchNext ==
    \/ \E i \in 1..Len(b_pairs) : RunBegin(i)
    \/ \E i \in 1..Len(b_pairs) : RunFinish(i)
    \/ MapReturns

SpecBatch == BatchInit /\ [][BatchNext]_vars

(***************************************************************************)
(* TTable construction (ttab.py): load_vocab on the two vocabulary files,  *)
(* then read_ttab on the forward table.  A line is a sequence of           *)
(* characters; a token is the sequence of its characters; a probability is *)
(* kept in tenths.  A dict is the sequence of its <<key, value>> entries.  *)
(***************************************************************************)
MaxTabLines == 2

RECURSIVE JoinWith(_, _)
JoinWith(sep, parts) ==
    IF parts = <<>> THEN <<>>
    ELSE IF Len(parts) = 1 THEN parts[1]
    ELSE parts[1] \o <<sep>> \o JoinWith(sep, Tail(parts))

\* the lines a vocabulary file is drawn from: two entries, an entry with a
\* token of two words, a line of two fields, and a line whose index is no number
VocabLines ==
    { <<"1", " ", "a", " ", "5">>,
      <<"2", " ", "b", " ", "7">>,
      <<"2", " ", "a", " ", "b", " ", "7">>,
      <<"2", " ", "b">>,
      <<"x", " ", "a", " ", "5">> }

TgtVocabFiles ==
    { << <<"1", " ", "a", " ", "5">> >>,
      << <<"1", " ", "a", " ", "5">>, <<"2", " ", "b", " ", "7">> >> }

\* "src_id tgt_id prob" over the indices 1 and 2
TableLines ==
    { <<s, " ", t, " ", ".", "5">> : s \in {"1", "2"}, t \in {"1", "2"} }

LinesUpTo(S, n) == UNION {[1..k -> S] : k \in 0..n}

IsIntLiteral(f) == f # <<>> /\ \A i \in 1..Len(f) : IsDigit(f[i])

DigitVal(c) == (CHOOSE i \in 1..10 : <<"0", "1", "2", "3", "4", "5", "6", "7", "8", "9">>[i] = c) - 1

RECURSIVE ParseInt(_)
\* int(f) for a literal of digits
ParseInt(f) ==
    IF Len(f) = 1 THEN DigitVal(f[1])
    ELSE 10 * ParseInt(SubSeq(f, 1, Len(f) - 1)) + DigitVal(f[Len(f)])

IsFloatLiteral(f) ==
    \/ IsIntLiteral(f)
    \/ Len(f) = 2 /\ f[1] = "." /\ IsDigit(f[2])

\* float(f), in tenths
ParseFloat(f) == IF f[1] = "." THEN DigitVal(f[2]) ELSE 10 * ParseInt(f)

\* if len(parts) < 3: warning, continue
ShortLineSkipped(parts) == Len(parts) < 3

RECURSIVE LoadVocabLines(_, _, _, _)
\* load_vocab: <<error, id2tok, freq, warnings>>
LoadVocabLines(lines, id2tok, freq, warnings) ==
    IF lines = <<>>
    THEN \* augment=((0, None, None),)
         IF 0 \in Keys(id2tok)
         THEN <<"AssertionError", id2tok, freq, warnings>>
         ELSE <<"", MapPut(id2tok, <<0, <<>>>>), MapPut(freq, <<0, 0>>), warnings>>
    ELSE LET parts == Split(lines[1])
             idx == parts[1]
             tok == JoinWith("_", SubSeq(parts, 2, Len(parts) - 1))
             count == parts[Len(parts)]
         IN  IF ShortLineSkipped(parts)
             THEN LoadVocabLines(Tail(lines), id2tok, freq, Append(warnings, lines[1]))
             ELSE IF ~IsIntLiteral(idx) \/ ~IsIntLiteral(count)
             THEN <<"ValueError", id2tok, freq, warnings>>
             ELSE LoadVocabLines(Tail(lines),
                                 MapPut(id2tok, <<ParseInt(idx), tok>>),
                                 MapPut(freq, <<ParseInt(idx), ParseInt(count)>>),
                                 warnings)

load_vocab(lines) == LoadVocabLines(lines, <<>>, <<>>, <<>>)

\* ttab[src_tok][tgt_tok] = prob, with ttab[src_tok] created when absent
TablePut(ttab, src_tok, tgt_tok, prob) ==
    LET row == IF src_tok \in Keys(ttab) THEN Lookup(ttab, src_tok) ELSE <<>>
    IN  MapPut(ttab, <<src_tok, MapPut(row, <<tgt_tok, prob>>)>>)

RECURSIVE ReadTtabLines(_, _, _, _, _)
\* read_ttab: <<error, ttab, warnings>>
ReadTtabLines(lines, idx1, idx2, ttab, warnings) ==
    IF lines = <<>> THEN <<"", ttab, warnings>>
    ELSE LET parts == Split(lines[1])
         IN  IF Len(parts) # 3
                   \/ ~IsIntLiteral(parts[1]) \/ ~IsIntLiteral(parts[2])
                   \/ ~IsFloatLiteral(parts[3])
             THEN <<"ValueError", ttab, warnings>>
             ELSE IF ParseInt(parts[1]) \notin Keys(idx1)
             THEN ReadTtabLines(Tail(lines), idx1, idx2, ttab, Append(warnings, lines[1]))
             ELSE IF ParseInt(parts[2]) \notin Keys(idx2)
             THEN ReadTtabLines(Tail(lines), idx1, idx2, ttab, Append(warnings, lines[1]))
             ELSE ReadTtabLines(Tail(lines), idx1, idx2,
                                TablePut(ttab, Lookup(idx1, ParseInt(parts[1])),
                                         Lookup(idx2, ParseInt(parts[2])),
                                         ParseFloat(parts[3])),
                                warnings)

read_ttab(lines, idx1, idx2) == ReadTtabLines(lines, idx1, idx2, <<>>, <<>>)

LoadInit ==
    /\ l_src_vocab \in LinesUpTo(VocabLines, MaxTabLines)
    /\ l_tgt_vocab \in TgtVocabFiles
    /\ l_fwd_table \in LinesUpTo(TableLines, MaxTabLines)
    /\ l_out = NoTTable
    /\ l_pc = "src_vocab"
    /\ IdleExcept("load")

\* self.src_id2tok, self.src_freq = TTable.load_vocab(src_vocab)
LoadSrcVocab ==
    /\ l_pc = "src_vocab"
    /\ LET r == load_vocab(l_src_vocab)
       IN  IF r[1] # ""
           THEN l_out' = [l_out EXCEPT !.error = r[1]] /\ l_pc' = "raised"
           ELSE /\ l_out' = [l_out EXCEPT !.src_id2tok = r[2], !.src_freq = r[3],
                                          !.warnings = @ \o r[4]]
                /\ l_pc' = "tgt_vocab"
    /\ UNCHANGED <<l_src_vocab, l_tgt_vocab, l_fwd_table>>
    /\ Frame("load")

\* self.tgt_id2tok, self.tgt_freq = TTable.load_vocab(tgt_vocab)
LoadTgtVocab ==
    /\ l_pc = "tgt_vocab"
    /\ LET r == load_vocab(l_tgt_vocab)
       IN  IF r[1] # ""
           THEN l_out' = [l_out EXCEPT !.error = r[1]] /\ l_pc' = "raised"
           ELSE /\ l_out' = [l_out EXCEPT !.tgt_id2tok = r[2], !.tgt_freq = r[3],
                                          !.warnings = @ \o r[4]]
                /\ l_pc' = "fwd"
    /\ UNCHANGED <<l_src_vocab, l_tgt_vocab, l_fwd_table>>
    /\ Frame("load")

\* self.fwd = self.read_ttab(fwd_table, self.src_id2tok, self.tgt_id2tok)
ReadFwd ==
    /\ l_pc = "fwd"
    /\ LET r == read_ttab(l_fwd_table, l_out.src_id2tok, l_out.tgt_id2tok)
       IN  IF r[1] # ""
           THEN l_out' = [l_out EXCEPT !.error = r[1]] /\ l_pc' = "raised"
           ELSE /\ l_out' = [l_out EXCEPT !.fwd = r[2], !.warnings = @ \o r[3]]
                /\ l_pc' = "done"
    /\ UNCHANGED <<l_src_vocab, l_tgt_vocab, l_fwd_table>>
    /\ Frame("load")

LoadNext == LoadSrcVocab \/ LoadTgtVocab \/ ReadFwd

SpecLoad == LoadInit /\ [][LoadNext]_vars

(***************************************************************************)
(* Solr.post_items and Solr.post_iterator (solr.py).  The server's answer  *)
(* to a request is the environment's choice of a status code; the progress *)
(* log of lines 71-73 changes no state.                                    *)
(***************************************************************************)
MaxItems == 5

MaxBufferSize == 3

Docs == {"d1", "d2"}

StatusCodes == {200, 204, 500}

\* the url of lines 26-31
PostUrl(commit, soft_commit) ==
    IF commit THEN "/update/json?commit=true"
    ELSE IF soft_commit THEN "/update/json?softCommit=true"
    ELSE "/update/json"

\* bool(resp) is resp.ok: the status is below 400
RespTruthy(status) == status < 400

\* post_items returns False if not resp or resp.status_code != 200
PostSucceeded(status) == ~(~RespTruthy(status) \/ status # 200)

BufferFullWhenOver(buffer, buffer_size) == Len(buffer) > buffer_size

\* if len(buffer) >= buffer_size
BufferFull(buffer, buffer_size) == Len(buffer) >= buffer_size

Request(items, status) ==
    [items |-> items, url |-> PostUrl(q_args.commit, q_args.soft_commit), status |-> status]

SolrInit ==
    /\ q_iter \in UNION {[1..n -> Docs] : n \in 0..MaxItems}
    /\ q_args \in [commit : BOOLEAN, soft_commit : BOOLEAN, buffer_size : 1..MaxBufferSize]
    /\ q_local = [buffer |-> <<>>, count |-> 0, num_docs |-> 0]
    /\ q_posts = <<>>
    /\ q_ret = [NoReturn EXCEPT !.pc = "loop"]
    /\ IdleExcept("solr")

\* one iteration of the loop of line 57
NextDoc ==
    /\ q_ret.pc = "loop"
    /\ q_local.num_docs < Len(q_iter)
    /\ LET num_docs == q_local.num_docs + 1
           buffer == Append(q_local.buffer, q_iter[num_docs])
       IN  IF BufferFull(buffer, q_args.buffer_size)
           THEN \E status \in StatusCodes :
                  /\ q_posts' = Append(q_posts, Request(buffer, status))
                  /\ IF PostSucceeded(status)
                     THEN /\ q_local' = [buffer |-> <<>>, count |-> q_local.count + 1,
                                         num_docs |-> num_docs]
                          /\ q_ret' = q_ret
                     ELSE /\ q_local' = [buffer |-> buffer, count |-> q_local.count + 1,
                                         num_docs |-> num_docs]
                          /\ q_ret' = [pc |-> "returned", num_docs |-> num_docs, res |-> FALSE]
           ELSE /\ q_local' = [q_local EXCEPT !.buffer = buffer, !.num_docs = num_docs]
                /\ UNCHANGED <<q_posts, q_ret>>
    /\ UNCHANGED <<q_iter, q_args>>
    /\ Frame("solr")

\* the iterator is exhausted: lines 75-78
LastPost ==
    /\ q_ret.pc = "loop"
    /\ q_local.num_docs = Len(q_iter)
    /\ IF q_local.buffer # <<>>
       THEN \E status \in StatusCodes :
              /\ q_posts' = Append(q_posts, Request(q_local.buffer, status))
              /\ q_ret' = [pc |-> "returned", num_docs |-> q_local.num_docs,
                           res |-> PostSucceeded(status)]
       ELSE /\ q_ret' = [pc |-> "returned", num_docs |-> q_local.num_docs, res |-> TRUE]
            /\ UNCHANGED q_posts
    /\ UNCHANGED <<q_iter, q_args, q_local>>
    /\ Frame("solr")

SolrNext == NextDoc \/ LastPost

SpecSolr == SolrInit /\ [][SolrNext]_vars

(***************************************************************************)
(* Vocabulary of the rematching claims.                                    *)
(***************************************************************************)
Range(s) == {s[i] : i \in 1..Len(s)}

Recs == result.alignments

RecSrc(k) == Recs[k][1][1]

RecTgt(k) == Recs[k][2][1]

RecScore(k) == Recs[k][3]

\* what the scorer returned for the pair (id1, id2)
ScoreOf(id1, id2) ==
    LET i == CHOOSE i \in 1..Len(scores) : scores[i][1] = id1 /\ scores[i][2] = id2
    IN  scores[i][3]

\* candidate pairs as (id1, id2), and their place in the source-major iteration
Pairs == Range(srcs) \X Range(tgts)

PairIndex(p) == (p[1] - 1) * Len(tgts) + p[2]

Surviving == {p \in Pairs : ScoreOf(p[1], p[2]) >= threshold}

Matched == {<<RecSrc(k), RecTgt(k)>> : k \in 1..Len(Recs)}

\* p is visited before q: higher score first, equal scores in iteration order
VisitedBefore(p, q) ==
    \/ ScoreOf(p[1], p[2]) > ScoreOf(q[1], q[2])
    \/ ScoreOf(p[1], p[2]) = ScoreOf(q[1], q[2]) /\ PairIndex(p) < PairIndex(q)

Clash(p, q) == p[1] = q[1] \/ p[2] = q[2]

NumMatches(r) == Len(r.alignments)

(***************************************************************************)
(* C1: the Alignment re_align_segs returns is injective in both            *)
(* directions: every record holds exactly one source id and one target id, *)
(* and no source id and no target id occurs in two records.                *)
(***************************************************************************)
C1_Injective ==
    (r_pc = "returned" /\ ~result.is_none) =>
        /\ \A k \in 1..Len(Recs) : Len(Recs[k][1]) = 1 /\ Len(Recs[k][2]) = 1
        /\ \A k, l \in 1..Len(Recs) :
             k # l => /\ Range(Recs[k][1]) \cap Range(Recs[l][1]) = {}
                      /\ Range(Recs[k][2]) \cap Range(Recs[l][2]) = {}

\* two records were output and a surviving pair was turned down
C1_Witness ==
    /\ r_pc = "returned"
    /\ Len(Recs) >= 2
    /\ Surviving \ Matched # {}

(***************************************************************************)
(* C2: for the same pair scores, a threshold T2 >= T1 never yields more    *)
(* matches than T1 does (None and a raised error count as zero matches).   *)
(***************************************************************************)
C2_Monotone ==
    r_pc # "scoring" =>
        \A t2 \in Thresholds :
            t2 >= threshold =>
                NumMatches(ReAlignSegs(scores, t2, debug_mode)) <= NumMatches(result)

\* a higher threshold strictly shrinks a matching without emptying it
C2_Witness ==
    /\ r_pc = "returned"
    /\ \E t2 \in Thresholds :
         /\ t2 > threshold
         /\ NumMatches(ReAlignSegs(scores, t2, debug_mode)) < NumMatches(result)
         /\ NumMatches(ReAlignSegs(scores, t2, debug_mode)) > 0

(***************************************************************************)
(* C3: re_align_segs returns None exactly when no candidate pair scores    *)
(* >= threshold (a document without segments included), and otherwise an   *)
(* Alignment with at least one record.                                     *)
(***************************************************************************)
C3_NoneIffNoSurvivor ==
    r_pc # "scoring" =>
        /\ r_pc = "returned"
        /\ result.is_none <=> (Surviving = {})
        /\ ~result.is_none => Len(Recs) >= 1

(***************************************************************************)
(* C4: the output is exactly what the greedy walk accepts: the surviving   *)
(* pairs are visited by descending score, equal scores in source-major     *)
(* iteration order; a pair is accepted iff no pair accepted before it      *)
(* holds its source id or its target id; records are in acceptance order.  *)
(***************************************************************************)
C4_GreedyWalk ==
    r_pc = "returned" =>
        /\ Matched \subseteq Surviving
        /\ \A k \in 1..Len(Recs) : RecScore(k) = ScoreOf(RecSrc(k), RecTgt(k))
        /\ \A k, l \in 1..Len(Recs) :
             k < l => VisitedBefore(<<RecSrc(k), RecTgt(k)>>, <<RecSrc(l), RecTgt(l)>>)
        /\ \A p \in Surviving :
             p \in Matched <=>
                ~\E q \in Matched : q # p /\ VisitedBefore(q, p) /\ Clash(q, p)

\* a walk with a tie between clashing survivors, one of them turned down
C4_Witness ==
    /\ r_pc = "returned"
    /\ Len(Recs) >= 2
    /\ \E p \in Matched, q \in Surviving \ Matched :
         Clash(p, q) /\ ScoreOf(p[1], p[2]) = ScoreOf(q[1], q[2])

(***************************************************************************)
(* C5: every record is a (source id, target id) pair of the two documents  *)
(* carrying the score the scorer returned for it, which is >= threshold;   *)
(* a pair scoring exactly the threshold is kept as a candidate: it is      *)
(* matched, or one of its ids is matched elsewhere.                        *)
(***************************************************************************)
C5_ThresholdRespected ==
    r_pc = "returned" =>
        /\ \A k \in 1..Len(Recs) :
             /\ <<RecSrc(k), RecTgt(k)>> \in Pairs
             /\ RecScore(k) = ScoreOf(RecSrc(k), RecTgt(k))
             /\ RecScore(k) >= threshold
        /\ \A p \in Pairs :
             ScoreOf(p[1], p[2]) = threshold =>
                /\ ~result.is_none
                /\ \E q \in Matched : Clash(p, q)

\* a record scoring exactly the threshold, next to a pair below it
C5_Witness ==
    /\ r_pc = "returned"
    /\ \E k \in 1..Len(Recs) : RecScore(k) = threshold
    /\ \E p \in Pairs : ScoreOf(p[1], p[2]) < threshold

(***************************************************************************)
(* Vocabulary of the cheap-scorer claims: what a pattern matches in a      *)
(* sentence, and how many tokens a sentence has, said without scanning.    *)
(***************************************************************************)
\* the maximal runs of digits of s
DigitMatches(s) ==
    LET firsts == {i \in 1..Len(s) : s[i] \in Digits /\ (i = 1 \/ s[i - 1] \notin Digits)}
        lasts == {j \in 1..Len(s) : s[j] \in Digits /\ (j = Len(s) \/ s[j + 1] \notin Digits)}
    IN  {SubSeq(s, ij[1], ij[2]) : ij \in
            {ij \in firsts \X lasts :
                ij[1] <= ij[2] /\ \A k \in ij[1]..ij[2] : s[k] \in Digits}}

\* "http://" or "https://" stands at i and a character other than the space follows it
SchemeAt(s, i) ==
    \E n \in {7, 8} :
        /\ i + n <= Len(s)
        /\ SubSeq(s, i, i + n - 1) \in {<<"h", "t", "t", "p", ":", "/", "/">>,
                                        <<"h", "t", "t", "p", "s", ":", "/", "/">>}
        /\ s[i + n] # " "

\* the URLs of s: from a scheme that is not inside an earlier URL up to the next space
UrlMatches(s) ==
    LET firsts == {i \in 1..Len(s) :
                     /\ SchemeAt(s, i)
                     /\ ~\E h \in 1..(i - 1) :
                           SchemeAt(s, h) /\ \A k \in h..i : s[k] # " "}
        lasts == {j \in 1..Len(s) : s[j] # " " /\ (j = Len(s) \/ s[j + 1] = " ")}
    IN  {SubSeq(s, ij[1], ij[2]) : ij \in
            {ij \in firsts \X lasts :
                ij[1] <= ij[2] /\ \A k \in ij[1]..ij[2] : s[k] # " "}}

\* what one pattern contributes, as the claim states it
Contribution(src_set, tgt_set) ==
    IF src_set # tgt_set THEN -20 ELSE 2 * Cardinality(src_set)

\* the whitespace tokens of s are counted by their last characters
TokenCount(s) ==
    Cardinality({j \in 1..Len(s) : s[j] # " " /\ (j = Len(s) \/ s[j + 1] = " ")})

(***************************************************************************)
(* C9: copy_score adds, for the digit pattern and for the URL pattern      *)
(* separately, must_reject (-20) when the set of matches of the source     *)
(* differs from that of the target, and 2 * may_accept * (number of        *)
(* distinct matches) when the sets are equal: positive for equal non-empty *)
(* sets, 0 when neither side has a match.                                  *)
(***************************************************************************)
C9_CopyScore ==
    cheap_name = "copypatn" =>
        /\ cheap_out = Contribution(DigitMatches(cheap_src), DigitMatches(cheap_tgt))
                       + Contribution(UrlMatches(cheap_src), UrlMatches(cheap_tgt))
        /\ (DigitMatches(cheap_src) \cup DigitMatches(cheap_tgt)
              \cup UrlMatches(cheap_src) \cup UrlMatches(cheap_tgt) = {}) => cheap_out = 0
        /\ (cheap_src = S_CALL_911_NOW /\ cheap_tgt = S_PHONE_911_PLEASE) => cheap_out > 0
        /\ (cheap_src = S_CALL_911 /\ cheap_tgt = S_CALL_112) => cheap_out <= must_reject

\* as many numerals on both sides, but other ones
C9_Witness ==
    /\ cheap_name = "copypatn"
    /\ cheap_src = S_CALL_911
    /\ cheap_tgt = S_CALL_112
    /\ cheap_out = -20

(***************************************************************************)
(* C10: charlen_score, on character counts, and toklen_score, on           *)
(* whitespace-token counts, return not_sure (0) exactly when               *)
(* 0.33 <= (1 + source length) / (1 + target length) <= 3.0, and           *)
(* must_reject (-20) for every other pair, an empty side included.         *)
(***************************************************************************)
C10_LengthRatio ==
    LET InBand(a, b) == 33 * (1 + b) <= 100 * (1 + a) /\ (1 + a) <= 3 * (1 + b)
    IN  /\ cheap_name = "charlen" =>
             cheap_out = IF InBand(Len(cheap_src), Len(cheap_tgt)) THEN 0 ELSE -20
        /\ cheap_name = "toklen" =>
             cheap_out = IF InBand(TokenCount(cheap_src), TokenCount(cheap_tgt)) THEN 0 ELSE -20

\* 33 tokens to 100: the ratio is exactly 0.33
C10_Witness ==
    /\ cheap_name = "toklen"
    /\ TokenCount(cheap_src) = 32
    /\ TokenCount(cheap_tgt) = 99
    /\ cheap_out = not_sure

(***************************************************************************)
(* Vocabulary of the UnifiedScorer claims.                                 *)
(***************************************************************************)
\* the cheap scorers the running call has invoked
CheapInvoked == SelectSeq(invoked, LAMBDA n : n # "final")

\* the total of the first k configured cheap scorers on the running pair
RECURSIVE PrefixTotal(_)
PrefixTotal(k) ==
    IF k = 0 THEN 0
    ELSE PrefixTotal(k - 1) + CheapScorer(flags[k], call_src, call_tgt)

Decided(tot) == tot >= 20 \/ tot <= -20

CallEnded == s_pc \in {"returned", "raised"}

(***************************************************************************)
(* C6: score is deterministic: with the configuration fixed, a call with   *)
(* the arguments of the first call ends as the first call did, with the    *)
(* same value, whatever was scored in between.                             *)
(***************************************************************************)
C6_Deterministic ==
    (CallEnded /\ first.set /\ first.src = call_src /\ first.tgt = call_tgt) =>
        /\ s_pc = first.outcome
        /\ final_score = first.value

\* the first pair is scored again after another pair, through a cheap scorer
C6_Witness ==
    /\ s_pc = "returned"
    /\ first.set
    /\ first.between
    /\ first.src = call_src
    /\ first.tgt = call_tgt
    /\ call_src # call_tgt
    /\ CheapInvoked # <<>>
    /\ final_score # 0

(***************************************************************************)
(* C7: the cheap scorers are invoked in the configured order, each output  *)
(* added to the running total; once the total is >= 20 or <= -20 no later  *)
(* cheap scorer and no final scorer is invoked.                            *)
(***************************************************************************)
C7_OrderAndShortCircuit ==
    s_pc # "idle" =>
        /\ Len(CheapInvoked) <= Len(flags)
        /\ \A k \in 1..Len(CheapInvoked) : invoked[k] = flags[k]
        /\ tot_score = PrefixTotal(Len(CheapInvoked))
        /\ \A k \in 0..(Len(CheapInvoked) - 1) : ~Decided(PrefixTotal(k))
        /\ Len(invoked) > Len(CheapInvoked) =>
              /\ invoked[Len(invoked)] = "final"
              /\ Len(invoked) = Len(flags) + 1
              /\ ~Decided(PrefixTotal(Len(flags)))
        /\ CallEnded =>
              \/ Len(CheapInvoked) = Len(flags)
              \/ Decided(PrefixTotal(Len(CheapInvoked)))

\* the first of two cheap scorers reaches must_accept: the second one and the
\* final scorer are left out
C7_Witness ==
    /\ s_pc = "returned"
    /\ Len(flags) = 2
    /\ invoked = <<flags[1]>>
    /\ tot_score >= must_accept
    /\ final_scorer.kind = "returns"

(***************************************************************************)
(* C8: score returns 1.0 when the cheap total is >= 20, -1.0 when it is    *)
(* <= -20, and otherwise the output of the final scorer, asserted to lie   *)
(* in [-1.0, 1.0], or not_sure (0) without a final scorer; every value     *)
(* returned lies in [-1.0, 1.0].                                           *)
(***************************************************************************)
C8_ReturnValue ==
    /\ s_pc = "returned" =>
          /\ tot_score >= 20 => final_score = 1
          /\ tot_score <= -20 => final_score = -1
          /\ (~Decided(tot_score) /\ final_scorer.kind = "none") => final_score = 0
          /\ (~Decided(tot_score) /\ final_scorer.kind # "none") =>
                final_scorer.kind = "returns" /\ final_score = final_scorer.value
          /\ -1 <= final_score /\ final_score <= 1
    /\ s_pc = "raised" =>
          /\ ~Decided(tot_score)
          /\ \/ final_scorer.kind = "raises"
             \/ final_scorer.kind = "returns"
                /\ (final_scorer.value < -1 \/ final_scorer.value > 1)

\* an undecided cheap total: the value returned is the final scorer's
C8_Witness ==
    /\ s_pc = "returned"
    /\ CheapInvoked # <<>>
    /\ tot_score # 0
    /\ ~Decided(tot_score)
    /\ invoked[Len(invoked)] = "final"
    /\ final_score = final_scorer.value

(***************************************************************************)
(* Vocabulary of the configuration claims.                                 *)
(***************************************************************************)
SupportedNames == FlagNames \cup {"mcss"}

McssEnabled == \E i \in 1..Len(g_flags) : g_flags[i] = "mcss"

ConfigurationError ==
    \/ \E i \in 1..Len(g_flags) : g_flags[i] \notin SupportedNames
    \/ McssEnabled /\ ~(g_src_emb /\ g_eng_emb)

\* C11: when the flag list holds a name outside the supported set, or mcss
\* is enabled while an embedding path is missing, get_scorer raises: no
\* scorer is returned and no sentence pair is ever scored.
C11_ConfigErrorsFatal ==
    ConfigurationError =>
        /\ g_pc \in {"start", "raised"}
        /\ g_scorer.kind \in {"unset", "raised"}
        /\ ~g_scored

\* an unsupported name next to mcss: the embeddings load, then the lookup raises
C11_Witness ==
    /\ g_pc = "raised"
    /\ g_flags = <<"mcss", "bogus">>
    /\ g_src_emb /\ g_eng_emb
    /\ g_scorer.error = "KeyError"

\* C12: with flags exactly "mcss" (and both embedding paths given), the
\* scorer get_scorer returns serves the scorer.score(src, tgt) calls of
\* re_align_segs and predict: neither the construction nor a call raises.
C12_McssOnlyUsable ==
    (g_flags = <<"mcss">> /\ g_src_emb /\ g_eng_emb) =>
        g_pc \notin {"raised", "caller_raised"}

(***************************************************************************)
(* Vocabulary of the embedding-table claims.                               *)
(***************************************************************************)
\* the lines k of the file whose word also stands on an earlier line
RepeatLines(n) == {k \in 1..n : \E j \in 1..(k - 1) : v_lines[j] = v_lines[k]}

\* the table holds the words of the first n lines, each once, each with the
\* vector of its own line, in file order
TableOfLines(n) ==
    /\ Len(v_word_vec) = n
    /\ \A k \in 1..n : v_word_vec[k] = <<v_lines[k], k>>

\* the number of lines load_vec reads when none of them stops it: up to the
\* line that brings the table to nmax words
ReadLimit ==
    LET full == {k \in 1..Len(v_lines) :
                    Cardinality({v_lines[j] : j \in 1..k}) = v_nmax}
    IN  IF full = {} THEN Len(v_lines) ELSE Least(full)

\* C13 as stated: load_vec returns no table when a word occurs on two lines
\* of the embedding file, and a returned table holds exactly one vector per
\* distinct word, the vector of the word's line, none skipped or overwritten
\* among the lines read.
C13_DuplicateFatal ==
    /\ RepeatLines(Len(v_lines)) # {} => v_pc # "returned"
    /\ v_pc = "returned" => TableOfLines(v_read)

\* C13 amended: load_vec returns no table when a word occurs on two of the
\* lines it reads, which are the lines up to the one that brings the table
\* to nmax words; a returned table holds exactly the words of those lines,
\* each once, with the vector of its own line.
C13_DuplicateAmongReadFatal ==
    /\ RepeatLines(ReadLimit) # {} => v_pc # "returned"
    /\ v_pc = "returned" => v_read = ReadLimit /\ TableOfLines(ReadLimit)

\* a repeated word among the lines read has stopped the load
C13_Witness ==
    /\ v_pc = "raised"
    /\ v_lines = <<"a", "b", "a">>
    /\ v_nmax = MaxVecLines
    /\ v_read = MaxVecLines

(***************************************************************************)
(* Vocabulary of the MCSS claims.                                          *)
(***************************************************************************)
McssTokens(sent) == Range(Split(Lower(sent)))

\* no token of the sentence is in the vocabulary (a sentence with no token
\* at all included)
NoneInVocab(sent, word_vec) == McssTokens(sent) \cap Keys(word_vec) = {}

FirstVector(word_vec) == [sum |-> word_vec[1][2], n |-> 1]

\* C14: MCSS.score never raises on a degenerate input, a sentence with no
\* tokens or with no in-vocabulary tokens: it returns, and the vector of the
\* first-inserted vocabulary word stands in for the sentence.
C14_NoRaiseOnDegenerate ==
    /\ m_pc # "raised"
    /\ m_pc = "returned" =>
         /\ NoneInVocab(m_src_sent, m_src_vec) => m_out.src = FirstVector(m_src_vec)
         /\ NoneInVocab(m_tgt_sent, m_tgt_vec) => m_out.tgt = FirstVector(m_tgt_vec)

(***************************************************************************)
(* Vocabulary of the translation-table claims.                             *)
(***************************************************************************)
SrcToks == Preprocess(t_src, t_lower)

TgtToks == Preprocess(t_tgt, t_lower)

\* C15: TranScorer.score guards the empty-token boundary: on a sentence
\* that preprocesses to no tokens it performs no division by zero (it
\* yields 0 or rejects the input before dividing).
C15_EmptyTokensGuarded ==
    (SrcToks = <<>> \/ TgtToks = <<>>) => t_out.error # "ZeroDivisionError"

\* the sum of the numbers f[i] for i in S
RECURSIVE SumOver(_, _)
SumOver(f, S) ==
    IF S = {} THEN 0
    ELSE LET i == CHOOSE j \in S : TRUE IN f[i] + SumOver(f, S \ {i})

\* the translation evidence of a token against a candidate set, in 1/ProbSteps
Evidence(tok, table, cand) ==
    LET rows == {i \in 1..Len(table) : table[i][1] = tok}
    IN  IF rows = {}
        THEN IF tok \in cand THEN ProbSteps ELSE 0
        ELSE LET row == table[CHOOSE i \in rows : TRUE][2]
                 hits == {i \in 1..Len(row) : row[i][1] \in cand}
                 probs == [i \in 1..Len(row) |-> row[i][2]]
             IN  IF hits = {} THEN 0
                 ELSE IF t_combine = "sum" THEN SumOver(probs, hits)
                 ELSE CHOOSE m \in {probs[i] : i \in hits} : \A i \in hits : probs[i] <= m

SrcEvidence == [i \in 1..Len(SrcToks) |-> Evidence(SrcToks[i], t_fwd, Range(TgtToks))]

TgtEvidence == [i \in 1..Len(TgtToks) |-> Evidence(TgtToks[i], t_inv, Range(SrcToks))]

\* C16: the evidence of a token absent from the table is 1.0 if the token is
\* in the candidate set and 0.0 otherwise; that of a token in the table is
\* the combiner over the probabilities of its entries whose word is in the
\* candidate set, 0.0 when there is none.  The score returned is the mean of
\* the mean source-token evidence (forward table, target token set) and the
\* mean target-token evidence (inverse table, source token set), each mean
\* over the token list with its repeats.
C16_ScoreIsMeanOfMeans ==
    t_pc = "returned" =>
        LET se == SrcEvidence
            te == TgtEvidence
        IN  /\ t_out.src_tok_usage = se
            /\ t_out.tgt_tok_usage = te
            /\ t_out.den > 0
            /\ t_out.num * (2 * ProbSteps * Len(se) * Len(te))
                 = t_out.den * (SumOver(se, DOMAIN se) * Len(te)
                                + SumOver(te, DOMAIN te) * Len(se))

\* a repeated in-table token with evidence next to a token without
C16_Witness ==
    /\ t_pc = "returned"
    /\ t_combine = "sum"
    /\ t_inv # <<>>
    /\ SrcToks = <<W_A, W_A, <<"B">>>>
    /\ t_out.src_tok_usage[1] > 0
    /\ t_out.src_tok_usage[3] = 0

InUnitInterval(usage) == \A i \in 1..Len(usage) : 0 <= usage[i] /\ usage[i] <= ProbSteps

ScoreInUnitInterval ==
    /\ InUnitInterval(t_out.src_tok_usage)
    /\ InUnitInterval(t_out.tgt_tok_usage)
    /\ 0 <= t_out.num
    /\ t_out.num <= t_out.den

\* no row of the table has probabilities that sum to more than 1
RowsAtMostOne(table) ==
    \A i \in 1..Len(table) :
        SumOver([k \in 1..Len(table[i][2]) |-> table[i][2][k][2]],
                1..Len(table[i][2])) <= ProbSteps

\* C17 as stated: for every table with probabilities in [0, 1], rows not
\* required to be normalized, either combiner and every pair of non-empty
\* token lists, the score returned and every per-token evidence lie in
\* [0, 1].
C17_UnitInterval == t_pc = "returned" => ScoreInUnitInterval

\* C17 amended: the same bound holds with the max combiner for every table,
\* and with the sum combiner when no row's probabilities sum to more than 1.
C17_UnitIntervalSubNormal ==
    (t_pc = "returned" /\ (t_combine = "max" \/ (RowsAtMostOne(t_fwd) /\ RowsAtMostOne(t_inv))))
        => ScoreInUnitInterval

\* the sum combiner reaching 1.0 over two entries of a row that sums to 1
C17_Witness ==
    /\ t_pc = "returned"
    /\ t_combine = "sum"
    /\ t_fwd = << <<W_A, << <<W_A, ProbSteps - 1>>, <<W_B, 1>> >> >> >>
    /\ t_out.src_tok_usage # <<>>
    /\ t_out.src_tok_usage[1] = ProbSteps

(***************************************************************************)
(* Vocabulary of the evaluation claims.                                    *)
(***************************************************************************)
Reported == e_runs > 0 /\ e_out.error = ""

\* a distractor sampled for pair i scores strictly higher than pair i
Outranked(i) ==
    \E k \in 1..Len(e_out.drawn[i]) :
        e_scorer[<<e_pos[i][1], e_out.drawn[i][k]>>] > e_scorer[e_pos[i]]

OutrankedCount == Cardinality({i \in 1..Len(e_pos) : Outranked(i)})

\* C18: a source sentence is reported FALSE NEG exactly when at least one
\* of its sampled distractors scores strictly higher than its true pair (an
\* equal score is no failure), and the error count reported is the number
\* of positive pairs with such a failure.
C18_FalseNegIffOutranked ==
    Reported =>
        /\ \A i \in 1..Len(e_pos) : e_out.false_neg[i] <=> Outranked(i)
        /\ e_out.err_count = OutrankedCount

\* C19: the harness returns to its caller the outranking-error percentage,
\* 100 * (source sentences with at least one outranking distractor) /
\* (positive pairs), a value in [0, 100].
C19_ReturnsErrorPercent ==
    Reported =>
        /\ e_out.returned
        /\ e_out.den > 0
        /\ e_out.num * Len(e_pos) = e_out.den * 100 * OutrankedCount
        /\ 0 <= e_out.num
        /\ e_out.num <= 100 * e_out.den

SameOutcome(a, b) ==
    /\ a.error = b.error
    /\ a.drawn = b.drawn
    /\ a.false_neg = b.false_neg
    /\ a.returned = b.returned
    /\ a.num * b.den = b.num * a.den

\* C20: two runs of the harness on the same positives, with the same
\* deterministic scorer, neg_sample_count and seed, draw the same
\* distractors and return exactly the same error percentage.
C20_Reproducible ==
    (e_runs = 2 /\ e_seed # <<>>) => SameOutcome(e_out, e_first)

\* the second run started from another generator state than the first, and
\* the sample of some pair leaves out a different target it could have drawn
C20_Witness ==
    /\ e_runs = 2
    /\ e_seed # <<>>
    /\ Reported
    /\ e_out.rng_before # e_first.rng_before
    /\ e_out.num > 0
    /\ \E i \in 1..Len(e_pos) :
         /\ e_out.drawn[i] # <<>>
         /\ \E j \in 1..Len(e_pos) :
              /\ e_pos[j][2] # e_pos[i][2]
              /\ \A k \in 1..Len(e_out.drawn[i]) : e_out.drawn[i][k] # e_pos[j][2]
              /\ e_scorer[<<e_pos[i][1], e_pos[j][2]>>] # e_scorer[<<e_pos[i][1], e_out.drawn[i][1]>>]

\* the number of samples drawn over all pairs: neg_count
DrawnTotal == SumOver([i \in 1..Len(e_out.drawn) |-> Len(e_out.drawn[i])], 1..Len(e_out.drawn))

\* the sample of pair i is drawn without replacement from the targets of the
\* other pairs: it uses each of them at most as often as it occurs there
WithoutReplacement(i) ==
    \A t \in EvalTgts :
        Cardinality({k \in 1..Len(e_out.drawn[i]) : e_out.drawn[i][k] = t})
            <= Cardinality({j \in 1..Len(e_pos) : j # i /\ e_pos[j][2] = t})

\* C21: for every list of positive pairs the harness accepts (more pairs
\* than neg_sample_count), the run ends without an exception, each pair is
\* scored against exactly neg_sample_count distractors, each the target of
\* another pair and different from the true target, drawn without
\* replacement; the negatives total (number of positives) x
\* neg_sample_count and the negative mean is not taken over zero samples.
C21_ExactlyNegSamples ==
    (e_runs > 0 /\ Len(e_pos) > e_neg) =>
        /\ e_out.error = ""
        /\ \A i \in 1..Len(e_pos) :
             /\ Len(e_out.drawn[i]) = e_neg
             /\ \A k \in 1..Len(e_out.drawn[i]) : e_out.drawn[i][k] # e_pos[i][2]
             /\ WithoutReplacement(i)
        /\ DrawnTotal = Len(e_pos) * e_neg
        /\ DrawnTotal > 0

(***************************************************************************)
(* Vocabulary of the batch claims.                                         *)
(***************************************************************************)
WritesOf(i) == {k \in 1..Len(b_writes) : b_writes[k][1] = i}

TaskPath(i) == AlnPath(OutKey(b_pairs[i]))

\* C22: a run on a pair whose output file exists reads no document, calls
\* no scorer and leaves the file as it is; so the pairs a batch computes are
\* pairs that had no output file, and a batch whose output files all exist
\* changes nothing.
C22_ExistingOutputSkipped ==
    /\ [](\A i \in 1..Len(b_pairs) :
            /\ b_task[i] = "skipped" => ~b_read[i] /\ WritesOf(i) = {}
            /\ b_read[i] => b_task[i] # "skipped")
    /\ [][\A i \in 1..Len(b_pairs) :
            (b_task[i] = "queued" /\ b_task'[i] # "queued" /\ TaskPath(i) \in b_exists)
                => b_task'[i] = "skipped" /\ b_exists' = b_exists /\ b_writes' = b_writes]_vars

\* a batch run again after a partial failure: one pair skipped, one computed
C22_Witness ==
    /\ b_pc = "returned"
    /\ Len(b_pairs) = MaxPairs
    /\ b_task[1] = "skipped"
    /\ b_task[MaxPairs] = "written"
    /\ Len(b_writes) = 1

\* C23: no output path is written by more than one task, whatever the list
\* of pairs and the number of workers.
C23_NoPathWrittenTwice ==
    \A k, m \in 1..Len(b_writes) : b_writes[k][2] = b_writes[m][2] => b_writes[k][1] = b_writes[m][1]

\* C24: a per-pair error (a missing tokenized file, or no viable candidate
\* pair) is recovered locally: the pair gets no output, every other pair is
\* still processed, and re_align_all completes without raising.
C24_PairErrorsRecovered ==
    /\ b_pc # "raised"
    /\ \A i \in 1..Len(b_pairs) :
         b_task[i] \in {"failed", "no_alignment"} => WritesOf(i) = {}
    /\ b_pc = "returned" => \A i \in 1..Len(b_pairs) : b_task[i] \notin {"queued", "computing"}

(***************************************************************************)
(* Vocabulary of the table-loading claim.                                  *)
(***************************************************************************)
\* Index<space>Word<space>Count: at least three fields, the first and the
\* last of them numbers
WellFormedVocabLine(line) ==
    LET parts == Split(line)
    IN  Len(parts) >= 3 /\ IsIntLiteral(parts[1]) /\ IsIntLiteral(parts[Len(parts)])

MalformedVocab(lines) == \E i \in 1..Len(lines) : ~WellFormedVocabLine(lines[i])

\* the probability lines whose two indices are both in the vocabularies
Loadable(line) ==
    /\ ParseInt(Split(line)[1]) \in Keys(l_out.src_id2tok)
    /\ ParseInt(Split(line)[2]) \in Keys(l_out.tgt_id2tok)

\* C25: a malformed vocabulary line stops the construction of the TTable
\* with an error; a probability line naming an index that is in no
\* vocabulary is skipped with a warning, and every other probability line
\* is loaded.
C25_LoadErrorPolicy ==
    /\ (l_pc \in {"tgt_vocab", "fwd", "done"}) => ~MalformedVocab(l_src_vocab)
    /\ (l_pc \in {"fwd", "done"}) => ~MalformedVocab(l_tgt_vocab)
    /\ l_pc = "done" =>
         \A i \in 1..Len(l_fwd_table) :
            LET line == l_fwd_table[i]
            IN  IF Loadable(line)
                THEN /\ Lookup(l_out.src_id2tok, ParseInt(Split(line)[1])) \in Keys(l_out.fwd)
                     /\ Lookup(l_out.tgt_id2tok, ParseInt(Split(line)[2]))
                           \in Keys(Lookup(l_out.fwd, Lookup(l_out.src_id2tok, ParseInt(Split(line)[1]))))
                ELSE \E w \in 1..Len(l_out.warnings) : l_out.warnings[w] = line

(***************************************************************************)
(* Vocabulary of the hard-rejection claim.                                 *)
(***************************************************************************)
\* the cheap scorer of this name finds a must_reject condition on the pair:
\* a ratio out of band, or a copy pattern whose match sets differ
ReportsMustReject(flag, src, tgt) ==
    IF flag = "copypatn"
    THEN \E p \in 1..Len(copy_patterns) :
            ~IsAligned(Findall(copy_patterns[p], src), Findall(copy_patterns[p], tgt))
    ELSE CheapScorer(flag, src, tgt) = must_reject

\* C27: when a cheap scorer that was invoked on the pair reports a
\* must_reject condition, score returns the negative sentinel and the final
\* scorer is not consulted, whatever the order of the cheap scorers.
C27_MustRejectIsHard ==
    (s_pc \in {"returned", "raised"}
        /\ \E k \in 1..Len(invoked) :
              invoked[k] # "final" /\ ReportsMustReject(invoked[k], call_src, call_tgt))
    => /\ s_pc = "returned"
       /\ final_score = final_neg_score
       /\ \A k \in 1..Len(invoked) : invoked[k] # "final"

(***************************************************************************)
(* Vocabulary of the maximality claim.                                     *)
(***************************************************************************)
PairScore(p) == ScoreOf(p[1], p[2])

MatchedIds(side) == {p[side] : p \in Matched}

\* C28: the returned matching is maximal and greedy-dominant: every
\* surviving pair that is not in the output has its source id or its target
\* id matched in the output to a partner with at least its score; so no
\* surviving pair has both ids unmatched, and some pair of maximal score
\* among the surviving pairs is in the output.
C28_MaximalGreedyDominant ==
    r_pc = "returned" =>
        /\ \A p \in Surviving \ Matched :
             \E q \in Matched : Clash(q, p) /\ PairScore(q) >= PairScore(p)
        /\ \A p \in Surviving : p[1] \in MatchedIds(1) \/ p[2] \in MatchedIds(2)
        /\ Surviving # {} =>
             \E p \in Matched : \A q \in Surviving : PairScore(p) >= PairScore(q)

\* a surviving pair is left out with one of its ids unmatched: only the
\* other id, matched at a strictly higher score, keeps it out
C28_Witness ==
    /\ r_pc = "returned"
    /\ \E p \in Surviving \ Matched :
         /\ p[2] \notin MatchedIds(2)
         /\ \E q \in Matched : q[1] = p[1] /\ PairScore(q) > PairScore(p)
    /\ \E p \in Surviving \ Matched : p[1] \notin MatchedIds(1)

\* C29: every positive pair is reported with the score of that same pair,
\* and its distractors are compared against that score: a distractor that
\* scores strictly higher than the pair itself makes it a FALSE NEG, also
\* when its source sentence occurs in several positive pairs.
C29_ScoreOfTheSamePair ==
    Reported =>
        \A i \in 1..Len(e_pos) :
            /\ e_out.pos_tgt_score[i] = e_scorer[e_pos[i]]
            /\ Outranked(i) => e_out.false_neg[i]

(***************************************************************************)
(* Vocabulary of the batching claim.                                       *)
(***************************************************************************)
RECURSIVE PostedItems(_)
PostedItems(k) == IF k = 0 THEN <<>> ELSE PostedItems(k - 1) \o q_posts[k].items

\* the server did not answer the request with 200 OK
PostFailedAt(k) == q_posts[k].status # 200

\* C30: post_iterator posts the items in batches, in iteration order, each
\* item in exactly one batch, every batch but possibly the last of exactly
\* buffer_size items; a failed post is the last one, and the call then
\* returns (items consumed so far, False); if every post succeeds the call
\* returns (number of items, True) with every item posted.
C30_BatchesInOrder ==
    /\ PostedItems(Len(q_posts)) = SubSeq(q_iter, 1, Len(PostedItems(Len(q_posts))))
    /\ \A k \in 1..Len(q_posts) :
         /\ Len(q_posts[k].items) \in 1..q_args.buffer_size
         /\ k < Len(q_posts) => Len(q_posts[k].items) = q_args.buffer_size
         /\ k < Len(q_posts) => ~PostFailedAt(k)
         /\ PostFailedAt(k) =>
              /\ q_ret.pc = "returned"
              /\ ~q_ret.res
              /\ q_ret.num_docs = Len(PostedItems(k))
              /\ q_ret.num_docs = q_local.num_docs
    /\ (q_ret.pc = "returned" /\ \A k \in 1..Len(q_posts) : ~PostFailedAt(k)) =>
         /\ q_ret.res
         /\ q_ret.num_docs = Len(q_iter)
         /\ PostedItems(Len(q_posts)) = q_iter
    /\ q_ret.pc = "loop" =>
         PostedItems(Len(q_posts)) \o q_local.buffer = SubSeq(q_iter, 1, q_local.num_docs)

\* two full batches were accepted, then the post of a shorter last batch failed
C30_Witness ==
    /\ q_ret.pc = "returned"
    /\ ~q_ret.res
    /\ Len(q_posts) = 3
    /\ PostFailedAt(3)
    /\ Len(q_posts[3].items) < q_args.buffer_size
    /\ q_posts[3].status = 204

====
